---- MODULE Spec2Model ----
(***************************************************************************)
(* Expense tracker: the record store (users, expenses, budgets,            *)
(* categories), the storage layer of storage_db.py and the JSON handlers   *)
(* of app.py.                                                              *)
(*                                                                         *)
(* Text (category names, ISO dates, YYYY-MM months) is a sequence of       *)
(* one-character strings, so that trimming, slicing, parsing and ordering  *)
(* are computed.  Amounts are integers (currency units); the 0.9 warning   *)
(* ratio is compared as a fraction.  Python's None / SQL NULL in a text    *)
(* column is the one-element sequence NoneT.                               *)
(***************************************************************************)
EXTENDS Integers, Sequences, FiniteSets, TLC

VARIABLES
    users,       \* table users: id -> username
    expenses,    \* table expenses
    budgets,     \* table budgets
    categories,  \* table categories
    flight,      \* requests being handled: request -> handler position and locals
    last,        \* the call completed last, with what it returned
    seeded,      \* history: the users whose default categories were inserted
    sessions     \* the session cookie of each client: its user_id, 0 when absent

vars == <<users, expenses, budgets, categories, flight, last, seeded, sessions>>

-----------------------------------------------------------------------------
(* Bounds of the model                                                     *)

MaxLimit == 10
MaxSpend == 12
MaxRows == 3
MaxCatId == 11

-----------------------------------------------------------------------------
(* Text                                                                    *)

NoneT == <<"None">>

Digits == <<"0", "1", "2", "3", "4", "5", "6", "7", "8", "9">>

IsDigit(c) == \E i \in 1..Len(Digits) : Digits[i] = c

DigitVal(c) == (CHOOSE i \in 1..Len(Digits) : Digits[i] = c) - 1

\* The characters the model's texts use, in ascending code-point order.
AsciiOrder ==
    <<" ", "&", "-", "0", "1", "2", "3", "4", "5", "6", "7", "8", "9",
      "B", "D", "E", "F", "G", "H", "O", "S", "T", "U",
      "a", "c", "d", "e", "g", "h", "i", "l", "m", "n", "o", "p", "r",
      "s", "t", "u", "v", "y", "z">>

Ord(c) == CHOOSE i \in 1..Len(AsciiOrder) : AsciiOrder[i] = c

\* s < t as Python str / SQLite BINARY collation compare them.
RECURSIVE TextLess(_, _)
TextLess(s, t) ==
    IF t = <<>> THEN FALSE
    ELSE IF s = <<>> THEN TRUE
    ELSE IF Head(s) = Head(t) THEN TextLess(Tail(s), Tail(t))
    ELSE Ord(Head(s)) < Ord(Head(t))

IsSpace(c) == c = " "

RECURSIVE lstrip(_)
lstrip(s) == IF s # <<>> /\ IsSpace(Head(s)) THEN lstrip(Tail(s)) ELSE s

RECURSIVE rstrip(_)
rstrip(s) ==
    IF s # <<>> /\ IsSpace(s[Len(s)]) THEN rstrip(SubSeq(s, 1, Len(s) - 1)) ELSE s

strip(s) == rstrip(lstrip(s))

\* Python truthiness of an optional text: None and "" are falsy.
Truthy(s) == s # NoneT /\ s # <<>>

-----------------------------------------------------------------------------
(* Tables: a table is a function from the ids in use to rows.              *)

Max(S) == CHOOSE x \in S : \A y \in S : y <= x

EmptyTable == [i \in {} |-> 0]

\* INTEGER PRIMARY KEY without the AUTOINCREMENT keyword: SQLite gives a new
\* row one more than the largest id in use (1 in an empty table).
NewId(t) == IF DOMAIN t = {} THEN 1 ELSE Max(DOMAIN t) + 1

Insert(t, row) ==
    [i \in DOMAIN t \cup {NewId(t)} |-> IF i \in DOMAIN t THEN t[i] ELSE row]

Remove(t, ids) == [i \in DOMAIN t \ ids |-> t[i]]

RowsOf(t, u) == {i \in DOMAIN t : t[i].user_id = u}

RECURSIVE SumAmount(_, _)
SumAmount(t, ids) ==
    IF ids = {} THEN 0
    ELSE LET i == CHOOSE j \in ids : TRUE
         IN  t[i].amount + SumAmount(t, ids \ {i})

-----------------------------------------------------------------------------
(* Aggregation                                                             *)

\* A plausible slip: the format is '%Y', so the groups are years.
strftime_y(d) == IF d = NoneT THEN NoneT ELSE SubSeq(d, 1, 4)

\* SQLite strftime('%Y-%m', date): NULL for a NULL date.
strftime_ym(d) == IF d = NoneT THEN NoneT ELSE SubSeq(d, 1, 7)

\* A plausible slip: the WHERE clause on user_id is left out.
monthly_totals_all_users(exps, u) ==
    LET mine    == DOMAIN exps
        keyOf(i) == LET ym == strftime_ym(exps[i].date)
                    IN  IF Truthy(ym) THEN ym ELSE <<>>
        keys    == {keyOf(i) : i \in mine}
    IN  [k \in keys |-> SumAmount(exps, {i \in mine : keyOf(i) = k})]

\* storage_db.monthly_totals: GROUP BY strftime('%Y-%m', date); the NULL group
\* is returned under the key "" (ym or "").
monthly_totals(exps, u) ==
    LET mine    == RowsOf(exps, u)
        keyOf(i) == LET ym == strftime_ym(exps[i].date)
                    IN  IF Truthy(ym) THEN ym ELSE <<>>
        keys    == {keyOf(i) : i \in mine}
    IN  [k \in keys |-> SumAmount(exps, {i \in mine : keyOf(i) = k})]

-----------------------------------------------------------------------------
(* Budgets                                                                 *)

NoRow == [found |-> FALSE]

get_budget(buds, u, m) ==
    LET hit == {i \in DOMAIN buds : buds[i].user_id = u /\ buds[i].month = m}
    IN  IF hit = {} THEN NoRow
        ELSE LET i == CHOOSE j \in hit : TRUE
             IN  [found |-> TRUE, id |-> i, user_id |-> buds[i].user_id,
                  month |-> buds[i].month, limit_amount |-> buds[i].limit_amount]

\* The warning threshold 0.9 as a fraction.
WarnNum == 9
WarnDen == 10

NullNum == [null |-> TRUE, val |-> 0]
Num(n) == [null |-> FALSE, val |-> n]

\* A plausible slip: spending exactly the limit already counts as "over".
budget_state_ge(limit_val, spent) ==
    IF limit_val <= 0 THEN "no_budget"
    ELSE IF spent >= limit_val THEN "over"
    ELSE IF spent * WarnDen >= WarnNum * limit_val THEN "warning"
    ELSE "ok"

\* The classification of get_budget_status; ratio = spent / limit_val when
\* limit_val > 0 and 0.0 otherwise, compared with 0.9 as a fraction.
budget_state(limit_val, spent) ==
    LET num == IF limit_val > 0 THEN spent ELSE 0
        den == IF limit_val > 0 THEN limit_val ELSE 1
    IN  IF limit_val <= 0 THEN "no_budget"
        ELSE IF spent > limit_val THEN "over"
        ELSE IF num * WarnDen >= WarnNum * den THEN "warning"
        ELSE "ok"

get_budget_status(buds, exps, u, m) ==
    LET budget == get_budget(buds, u, m)
        totals == monthly_totals(exps, u)
        spent  == IF m \in DOMAIN totals THEN totals[m] ELSE 0
    IN  IF ~budget.found
        THEN [month |-> m, limit |-> NullNum, spent |-> spent,
              remaining |-> NullNum, status |-> "no_budget"]
        ELSE LET limit_val == budget.limit_amount
                 remaining == IF limit_val - spent > 0 THEN limit_val - spent ELSE 0
                 status == budget_state(limit_val, spent)
             IN  [month |-> m, limit |-> Num(limit_val), spent |-> spent,
                  remaining |-> Num(remaining), status |-> status]

-----------------------------------------------------------------------------
(* SpecStatus: get_budget_status applied to one budget row and one month's *)
(* ledger, over a grid of limits and spends.                               *)

M2401 == <<"2", "0", "2", "4", "-", "0", "1">>
M2402 == <<"2", "0", "2", "4", "-", "0", "2">>

D240105 == M2401 \o <<"-", "0", "5">>
D240120 == M2401 \o <<"-", "2", "0">>
D240203 == M2402 \o <<"-", "0", "3">>

Gym   == <<"G", "y", "m">>
Other == <<"O", "t", "h", "e", "r">>

NoCall == [op |-> "none"]

Alice == <<"a", "l", "i", "c", "e">>
Bob   == <<"b", "o", "b">>

Clients == {"c1"}

NoSessions == [c \in Clients |-> 0]

\* werkzeug generate_password_hash / check_password_hash: a hash verifies
\* exactly the password it was made from.
PwHash(pw) == <<"hash", pw>>

check_password_hash(h, pw) == h = PwHash(pw)

UserRow(name, h) == [username |-> name, password_hash |-> h]

ExpenseRow(u, a, c, d, n) ==
    [user_id |-> u, amount |-> a, category |-> c, date |-> d, note |-> n]

BudgetRow(u, m, l) == [user_id |-> u, month |-> m, limit_amount |-> l]

InitStatus ==
    /\ users = (1 :> UserRow(Alice, PwHash("pw")))
    /\ \E l \in 1..MaxLimit : budgets = (1 :> BudgetRow(1, M2401, l))
    /\ \E s \in 0..MaxSpend, a \in {0, 1} :
          /\ a <= s
          /\ expenses = IF s = 0 THEN EmptyTable
                        ELSE IF a = 0 THEN (1 :> ExpenseRow(1, s, Other, D240105, <<>>))
                        ELSE (1 :> ExpenseRow(1, s - a, Other, D240105, <<>>))
                             @@ (2 :> ExpenseRow(1, a, Gym, D240120, <<>>))
    /\ categories = EmptyTable
    /\ flight = EmptyTable
    /\ last = NoCall
    /\ seeded = {}
    /\ sessions = NoSessions

StatusCall(u, m) ==
    /\ last = NoCall
    /\ last' = [op |-> "get_budget_status", user |-> u, month |-> m,
                result |-> get_budget_status(budgets, expenses, u, m)]
    /\ UNCHANGED <<users, expenses, budgets, categories, flight, seeded, sessions>>

NextStatus == \E u \in DOMAIN users, m \in {M2401, M2402} : StatusCall(u, m)

SpecStatus == InitStatus /\ [][NextStatus]_vars

\* The limit L of the user's budget row for the month and the spend S of the
\* month, read from the tables.
LimitOf(u, m) ==
    LET i == CHOOSE j \in DOMAIN budgets :
                 budgets[j].user_id = u /\ budgets[j].month = m
    IN  budgets[i].limit_amount

HasBudget(u, m) ==
    \E j \in DOMAIN budgets : budgets[j].user_id = u /\ budgets[j].month = m

SpentIn(u, m) ==
    SumAmount(expenses, {i \in RowsOf(expenses, u) :
                            /\ expenses[i].date # NoneT
                            /\ SubSeq(expenses[i].date, 1, 7) = m})

\* C3: for a budget row with limit L > 0 and monthly spend S >= 0 the status
\* object has remaining = max(L - S, 0), status "over" exactly when S > L,
\* "warning" exactly when S <= L and S/L >= 0.9 (S = L is "warning"), "ok"
\* otherwise; remaining is never negative and is 0 whenever status is "over".
C3_StatusClassification ==
    (last.op = "get_budget_status" /\ HasBudget(last.user, last.month)
        /\ LimitOf(last.user, last.month) > 0)
    => LET L == LimitOf(last.user, last.month)
           S == SpentIn(last.user, last.month)
           r == last.result
       IN  /\ S >= 0
           /\ r.limit = Num(L)
           /\ r.spent = S
           /\ r.remaining = Num(IF L - S > 0 THEN L - S ELSE 0)
           /\ (r.status = "over") <=> (S > L)
           /\ (r.status = "warning") <=> (S <= L /\ 10 * S >= 9 * L)
           /\ (r.status = "ok") <=> (10 * S < 9 * L)
           /\ r.status \in {"over", "warning", "ok"}
           /\ r.remaining.val >= 0
           /\ (r.status = "over") => r.remaining.val = 0

\* C3 witness: a status computed at S = L (warning, remaining 0) with the spend
\* summed over two expenses.
C3_Witness ==
    /\ last.op = "get_budget_status"
    /\ HasBudget(last.user, last.month)
    /\ SpentIn(last.user, last.month) = LimitOf(last.user, last.month)
    /\ Cardinality(DOMAIN expenses) = 2
    /\ last.result.status = "warning"
    /\ last.result.remaining = Num(0)

-----------------------------------------------------------------------------
(* ISO calendar dates                                                      *)

Num2(s, i) == 10 * DigitVal(s[i]) + DigitVal(s[i + 1])

Num4(s, i) == 100 * Num2(s, i) + Num2(s, i + 2)

IsLeap(y) == (y % 4 = 0 /\ y % 100 # 0) \/ y % 400 = 0

DaysIn(y, m) ==
    IF m = 2 THEN (IF IsLeap(y) THEN 29 ELSE 28)
    ELSE IF m \in {4, 6, 9, 11} THEN 30 ELSE 31

\* date.fromisoformat accepts s: YYYY-MM-DD naming a real calendar day.
IsIsoDate(s) ==
    /\ s # NoneT
    /\ Len(s) = 10
    /\ s[5] = "-" /\ s[8] = "-"
    /\ \A i \in {1, 2, 3, 4, 6, 7, 9, 10} : IsDigit(s[i])
    /\ Num4(s, 1) >= 1
    /\ Num2(s, 6) \in 1..12
    /\ Num2(s, 9) \in 1..DaysIn(Num4(s, 1), Num2(s, 6))

-----------------------------------------------------------------------------
(* Storage layer: each operator is one get_session() unit of work, from    *)
(* the table before to the table after and the value returned.             *)

Uncategorized == <<"U", "n", "c", "a", "t", "e", "g", "o", "r", "i", "z", "e", "d">>

\* The value the INSERT of an Expense stores for category and note: the ORM
\* leaves an attribute that is None out of the INSERT when its column has a
\* default, so the column default of models.py is stored.
ColumnOrDefault(value, default) == IF value = NoneT THEN default ELSE value

\* save_expense: an absent or empty date is stored as NULL, any other one is
\* converted with date.fromisoformat, which raises ValueError on a text that
\* is no ISO date (the session rolls back); category and note fall back to
\* their column defaults when they are None.
save_expense(exps, expense) ==
    IF Truthy(expense.date) /\ ~IsIsoDate(expense.date)
    THEN [ok |-> FALSE, error |-> "ValueError", table |-> exps]
    ELSE LET row == ExpenseRow(expense.user_id, expense.amount,
                               ColumnOrDefault(expense.category, Uncategorized),
                               IF Truthy(expense.date) THEN expense.date ELSE NoneT,
                               ColumnOrDefault(expense.note, <<>>))
         IN  [ok |-> TRUE, table |-> Insert(exps, row),
              result |-> [id |-> NewId(exps)] @@ row]

find_expense(exps, expense_id) ==
    IF expense_id \in DOMAIN exps
    THEN [found |-> TRUE, id |-> expense_id] @@ exps[expense_id]
    ELSE NoRow

\* update_expense: updates is a record of the fields to set.  A truthy date
\* is converted with date.fromisoformat (ValueError when it is no ISO date),
\* every other value is assigned as it is; the flush rejects None in a NOT
\* NULL column (IntegrityError) and a date that is not a date object
\* (StatementError).
update_expense(exps, expense_id, updates) ==
    IF expense_id \notin DOMAIN exps
    THEN [ok |-> TRUE, found |-> FALSE, table |-> exps]
    ELSE LET exp == exps[expense_id]
             keys == DOMAIN updates
             new == [f \in DOMAIN exp |-> IF f \in keys THEN updates[f] ELSE exp[f]]
         IN  IF "date" \in keys /\ Truthy(updates.date) /\ ~IsIsoDate(updates.date)
             THEN [ok |-> FALSE, error |-> "ValueError", table |-> exps]
             ELSE IF "date" \in keys /\ updates.date = <<>>
             THEN [ok |-> FALSE, error |-> "StatementError", table |-> exps]
             ELSE IF new.category = NoneT \/ new.note = NoneT
             THEN [ok |-> FALSE, error |-> "IntegrityError", table |-> exps]
             ELSE [ok |-> TRUE, found |-> TRUE,
                   table |-> [exps EXCEPT ![expense_id] = new],
                   result |-> [id |-> expense_id] @@ new]

delete_expense(exps, expense_id) ==
    IF expense_id \notin DOMAIN exps
    THEN [found |-> FALSE, table |-> exps]
    ELSE [found |-> TRUE, table |-> Remove(exps, {expense_id})]

find_user_by_username(us, username) ==
    LET hit == {i \in DOMAIN us : us[i].username = username}
    IN  IF hit = {} THEN NoRow
        ELSE LET i == CHOOSE j \in hit : TRUE
             IN  [found |-> TRUE, id |-> i] @@ us[i]

find_user_by_id(us, user_id) ==
    IF user_id \in DOMAIN us
    THEN [found |-> TRUE, id |-> user_id] @@ us[user_id]
    ELSE NoRow

\* save_user: the INSERT is subject to the unique index on users.username;
\* a violation raises IntegrityError and get_session rolls back.
save_user(us, user) ==
    IF \E i \in DOMAIN us : us[i].username = user.username
    THEN [ok |-> FALSE, error |-> "IntegrityError", table |-> us]
    ELSE [ok |-> TRUE,
          table |-> Insert(us, UserRow(user.username, user.password_hash)),
          result |-> [id |-> NewId(us)]
                        @@ UserRow(user.username, user.password_hash)]

\* A plausible slip: the existence check is skipped and a row is always added.
upsert_budget_insert(buds, u, m, l) ==
    [table |-> Insert(buds, BudgetRow(u, m, l)),
     result |-> [id |-> NewId(buds)] @@ BudgetRow(u, m, l)]

upsert_budget(buds, u, m, l) ==
    LET hit == {i \in DOMAIN buds : buds[i].user_id = u /\ buds[i].month = m}
    IN  IF hit # {}
        THEN LET i == CHOOSE j \in hit : TRUE
             IN  [table |-> [buds EXCEPT ![i].limit_amount = l],
                  result |-> [id |-> i] @@ BudgetRow(u, m, l)]
        ELSE [table |-> Insert(buds, BudgetRow(u, m, l)),
              result |-> [id |-> NewId(buds)] @@ BudgetRow(u, m, l)]

CategoryRow(u, n) == [user_id |-> u, name |-> n]

\* A plausible slip: the name is looked up and stored as given, untrimmed.
add_category_untrimmed(cats, u, name) ==
    LET n == IF Truthy(name) THEN name ELSE <<>>
        hit == {i \in DOMAIN cats : cats[i].user_id = u /\ cats[i].name = n}
    IN  IF ~Truthy(strip(n))
        THEN [ok |-> FALSE, error |-> "ValueError", table |-> cats]
        ELSE IF hit # {}
        THEN LET i == CHOOSE j \in hit : TRUE
             IN  [ok |-> TRUE, table |-> cats,
                  result |-> [id |-> i, name |-> cats[i].name]]
        ELSE [ok |-> TRUE, table |-> Insert(cats, CategoryRow(u, n)),
              result |-> [id |-> NewId(cats), name |-> n]]

add_category(cats, u, name) ==
    LET n == strip(IF Truthy(name) THEN name ELSE <<>>)
        hit == {i \in DOMAIN cats : cats[i].user_id = u /\ cats[i].name = n}
    IN  IF ~Truthy(n)
        THEN [ok |-> FALSE, error |-> "ValueError", table |-> cats]
        ELSE IF hit # {}
        THEN LET i == CHOOSE j \in hit : TRUE
             IN  [ok |-> TRUE, table |-> cats,
                  result |-> [id |-> i, name |-> cats[i].name]]
        ELSE [ok |-> TRUE, table |-> Insert(cats, CategoryRow(u, n)),
              result |-> [id |-> NewId(cats), name |-> n]]

DEFAULT_CATEGORIES ==
    << <<"F", "o", "o", "d", " ", "&", " ", "D", "i", "n", "i", "n", "g">>,
       <<"T", "r", "a", "n", "s", "p", "o", "r", "t", "a", "t", "i", "o", "n">>,
       <<"S", "h", "o", "p", "p", "i", "n", "g">>,
       <<"E", "n", "t", "e", "r", "t", "a", "i", "n", "m", "e", "n", "t">>,
       <<"B", "i", "l", "l", "s", " ", "&", " ",
         "U", "t", "i", "l", "i", "t", "i", "e", "s">>,
       <<"H", "e", "a", "l", "t", "h", "c", "a", "r", "e">>,
       <<"E", "d", "u", "c", "a", "t", "i", "o", "n">>,
       <<"T", "r", "a", "v", "e", "l">>,
       <<"G", "r", "o", "c", "e", "r", "i", "e", "s">>,
       Other >>

\* session.add of one Category per name, in the order of the list.
RECURSIVE AddAll(_, _, _)
AddAll(cats, u, names) ==
    IF names = <<>> THEN cats
    ELSE AddAll(Insert(cats, CategoryRow(u, Head(names))), u, Tail(names))

\* A plausible slip: the defaults are topped up whenever the user holds fewer
\* rows than there are defaults, not only when the user holds none.
ensure_default_categories_topup(cats, u) ==
    IF Cardinality(RowsOf(cats, u)) >= Len(DEFAULT_CATEGORIES) THEN cats
    ELSE AddAll(cats, u,
                SelectSeq(DEFAULT_CATEGORIES,
                          LAMBDA n : \A i \in RowsOf(cats, u) : cats[i].name # n))

ensure_default_categories(cats, u) ==
    IF RowsOf(cats, u) # {} THEN cats
    ELSE AddAll(cats, u, DEFAULT_CATEGORIES)

\* A plausible slip: the ORDER BY is dropped and the rows come back by id.
RECURSIVE order_by_id(_, _)
order_by_id(cats, ids) ==
    IF ids = {} THEN <<>>
    ELSE LET i == CHOOSE j \in ids : \A k \in ids : j <= k
         IN  <<[id |-> i, name |-> cats[i].name]>> \o order_by_id(cats, ids \ {i})

\* ORDER BY name ASC over the rows ids of the table.
RECURSIVE order_by_name(_, _)
order_by_name(cats, ids) ==
    IF ids = {} THEN <<>>
    ELSE LET i == CHOOSE j \in ids :
                      \A k \in ids : ~TextLess(cats[k].name, cats[j].name)
         IN  <<[id |-> i, name |-> cats[i].name]>> \o order_by_name(cats, ids \ {i})

list_categories(cats, u) ==
    LET t == ensure_default_categories(cats, u)
    IN  [table |-> t, result |-> order_by_name(t, RowsOf(t, u))]

\* A plausible slip: the owner of the row is not compared with the caller.
delete_category_any_owner(cats, u, category_id) ==
    IF category_id \notin DOMAIN cats
    THEN [ok |-> FALSE, table |-> cats]
    ELSE [ok |-> TRUE, table |-> Remove(cats, {category_id})]

delete_category(cats, u, category_id) ==
    IF category_id \notin DOMAIN cats \/ cats[category_id].user_id # u
    THEN [ok |-> FALSE, table |-> cats]
    ELSE [ok |-> TRUE, table |-> Remove(cats, {category_id})]

\* session.delete(user); commit, as the mappings of models.py make the ORM and
\* SQLite (foreign keys not enforced: db.py sets no pragma) carry it out:
\*   expenses   User.expenses cascades "all, delete-orphan": deleted;
\*   budgets    the backref User.budgets has no delete cascade, so the ORM
\*              sets budgets.user_id to NULL, which the NOT NULL column
\*              rejects: IntegrityError, the whole unit of work rolls back;
\*   categories no relationship, ON DELETE CASCADE is not enforced: kept.
delete_user(us, exps, buds, cats, u) ==
    IF RowsOf(buds, u) # {}
    THEN [ok |-> FALSE, error |-> "IntegrityError",
          users |-> us, expenses |-> exps, budgets |-> buds, categories |-> cats]
    ELSE [ok |-> TRUE, users |-> Remove(us, {u}),
          expenses |-> Remove(exps, RowsOf(exps, u)),
          budgets |-> buds, categories |-> cats]

-----------------------------------------------------------------------------
(* The storage layer called directly, one call after another.              *)

TwoUsers == (1 :> UserRow(Alice, PwHash("pw"))) @@ (2 :> UserRow(Bob, PwHash("pw")))

StoreAmounts == {1, 2}
StoreDates   == {NoneT, D240105, D240203}
StoreMonths  == {M2401, M2402}
StoreNames   == {Gym, <<" ">> \o Gym, <<>>}

InitStore ==
    /\ users = TwoUsers
    /\ expenses = EmptyTable
    /\ budgets = EmptyTable
    /\ categories = EmptyTable
    /\ flight = EmptyTable
    /\ last = NoCall
    /\ seeded = {}
    /\ sessions = NoSessions

StoreSaveExpense(u, a, d) ==
    /\ LET r == save_expense(expenses, ExpenseRow(u, a, Other, d, <<>>))
       IN  /\ Cardinality(DOMAIN r.table) <= MaxRows
           /\ expenses' = r.table
           /\ last' = [op |-> "save_expense", user |-> u, ok |-> r.ok]
    /\ UNCHANGED <<users, budgets, categories, flight, seeded, sessions>>

StoreUpsertBudget(u, m, l) ==
    /\ LET r == upsert_budget(budgets, u, m, l)
       IN  /\ Cardinality(DOMAIN r.table) <= MaxRows
           /\ budgets' = r.table
           /\ last' = [op |-> "upsert_budget", user |-> u, month |-> m,
                       limit |-> l, result |-> r.result]
    /\ UNCHANGED <<users, expenses, categories, flight, seeded, sessions>>

StoreMonthlyTotals(u) ==
    /\ last' = [op |-> "monthly_totals", user |-> u,
                result |-> monthly_totals(expenses, u)]
    /\ UNCHANGED <<users, expenses, budgets, categories, flight, seeded, sessions>>

StoreDeleteUser(u) ==
    /\ LET r == delete_user(users, expenses, budgets, categories, u)
       IN  /\ users' = r.users
           /\ expenses' = r.expenses
           /\ budgets' = r.budgets
           /\ categories' = r.categories
           /\ last' = [op |-> "delete_user", user |-> u, ok |-> r.ok]
    /\ UNCHANGED <<flight, seeded, sessions>>

CatList(u) ==
    /\ LET r == list_categories(categories, u)
       IN  /\ \A i \in DOMAIN r.table : i <= MaxCatId
           /\ categories' = r.table
           /\ seeded' = IF r.table # categories THEN seeded \cup {u} ELSE seeded
           /\ last' = [op |-> "list_categories", user |-> u, result |-> r.result]
    /\ UNCHANGED <<users, expenses, budgets, flight, sessions>>

CatAdd(u, name) ==
    /\ LET r == add_category(categories, u, name)
       IN  /\ \A i \in DOMAIN r.table : i <= MaxCatId
           /\ categories' = r.table
           /\ last' = IF r.ok
                      THEN [op |-> "add_category", user |-> u, name |-> name,
                            ok |-> TRUE, result |-> r.result]
                      ELSE [op |-> "add_category", user |-> u, name |-> name,
                            ok |-> FALSE, error |-> r.error]
    /\ UNCHANGED <<users, expenses, budgets, flight, seeded, sessions>>

CatDelete(u, category_id) ==
    /\ LET r == delete_category(categories, u, category_id)
       IN  /\ categories' = r.table
           /\ last' = [op |-> "delete_category", user |-> u, ok |-> r.ok]
    /\ UNCHANGED <<users, expenses, budgets, flight, seeded, sessions>>

\* SpecCat: the category registry of one user, called in any order.
CatNames == {Gym, <<" ">> \o Gym \o <<" ">>, <<" ", " ">>, <<>>, NoneT, Other}

InitCat ==
    /\ users = (1 :> UserRow(Alice, PwHash("pw")))
    /\ expenses = EmptyTable
    /\ budgets = EmptyTable
    /\ categories = EmptyTable
    /\ flight = EmptyTable
    /\ last = NoCall
    /\ seeded = {}
    /\ sessions = NoSessions

NextCat ==
    \/ \E u \in DOMAIN users : CatList(u)
    \/ \E u \in DOMAIN users, n \in CatNames : CatAdd(u, n)
    \/ \E u \in DOMAIN users, i \in 1..NewId(categories) : CatDelete(u, i)

SpecCat == InitCat /\ [][NextCat]_vars

\* SpecBudget: sequences of upsert_budget calls.
NextBudget ==
    \E u \in DOMAIN users, m \in StoreMonths, l \in StoreAmounts :
        StoreUpsertBudget(u, m, l)

SpecBudget == InitStore /\ [][NextBudget]_vars

\* SpecTotals: ledgers written through save_expense (dated and dateless
\* expenses) and aggregated by monthly_totals.
NextTotals ==
    \/ \E u \in DOMAIN users, a \in StoreAmounts, d \in StoreDates :
          StoreSaveExpense(u, a, d)
    \/ \E u \in DOMAIN users : StoreMonthlyTotals(u)

SpecTotals == InitStore /\ [][NextTotals]_vars

\* SpecCascade: rows of every kind are written for two users, and users are
\* deleted.
NextCascade ==
    \/ \E u \in DOMAIN users : StoreSaveExpense(u, 1, D240105)
    \/ \E u \in DOMAIN users : StoreUpsertBudget(u, M2401, 1)
    \/ \E u \in DOMAIN users, n \in StoreNames : CatAdd(u, n)
    \/ \E u \in DOMAIN users : StoreDeleteUser(u)

SpecCascade == InitStore /\ [][NextCascade]_vars

\* SpecCatOwn: the categories of two users, added and deleted by id by either
\* user.
OwnNames == {Gym, Other}
MaxOwnId == 4

CatDeleteById(u, category_id) ==
    /\ LET r == delete_category(categories, u, category_id)
       IN  /\ categories' = r.table
           /\ last' = [op |-> "delete_category", user |-> u, id |-> category_id,
                       ok |-> r.ok]
    /\ UNCHANGED <<users, expenses, budgets, flight, seeded, sessions>>

NextCatOwn ==
    \/ \E u \in DOMAIN users, n \in OwnNames :
          NewId(categories) <= MaxOwnId /\ CatAdd(u, n)
    \/ \E u \in DOMAIN users, i \in 1..NewId(categories) : CatDeleteById(u, i)

SpecCatOwn == InitStore /\ [][NextCatOwn]_vars

-----------------------------------------------------------------------------
(* The JSON handlers of app.py.  A request body is a record of its fields;  *)
(* a text field that the body does not carry is Absent, a JSON null is      *)
(* NoneT; a number field is a record [k, v] with k "num", "text" (not a     *)
(* number), "null" or "absent".                                            *)

Absent == <<"absent">>

NumV(n) == [k |-> "num", v |-> n]
TextV   == [k |-> "text", v |-> 0]
NullV   == [k |-> "null", v |-> 0]
AbsentV == [k |-> "absent", v |-> 0]
NanV    == [k |-> "nan", v |-> 0]

\* dict.get(key): None for a missing key.
Get(x) == IF x = Absent THEN NoneT ELSE x

\* dict.get(key, default)
GetOr(x, default) == IF x = Absent THEN default ELSE x

\* x or ""
OrEmpty(x) == IF Truthy(x) THEN x ELSE <<>>

\* datetime.utcnow().date() at the time of the requests.
UtcToday == D240203

\* datetime.fromisoformat accepts s: an ISO date, alone or followed by a
\* separator character and HH:MM.
IsIsoDateTime(s) ==
    /\ s # NoneT
    /\ Len(s) \in {10, 16}
    /\ IsIsoDate(SubSeq(s, 1, 10))
    /\ Len(s) = 16 =>
          /\ IsDigit(s[12]) /\ IsDigit(s[13]) /\ s[14] = ":"
          /\ IsDigit(s[15]) /\ IsDigit(s[16])
          /\ Num2(s, 12) < 24 /\ Num2(s, 15) < 60

\* datetime.strptime(month + "-01", "%Y-%m-%d") succeeds: %Y is four digits,
\* %m is one or two digits naming a month 1..12.
IsYearMonth(m) ==
    /\ Len(m) \in {6, 7}
    /\ \A i \in 1..4 : IsDigit(m[i])
    /\ Num4(m, 1) >= 1
    /\ m[5] = "-"
    /\ \A i \in 6..Len(m) : IsDigit(m[i])
    /\ IF Len(m) = 7 THEN Num2(m, 6) \in 1..12 ELSE DigitVal(m[6]) \in 1..9

\* A plausible slip: zero passes the test.
positive_float_or_zero(x) ==
    IF x.k = "nan" THEN [ok |-> TRUE, nan |-> TRUE, val |-> 0]
    ELSE IF x.k # "num" THEN [ok |-> FALSE, error |-> "invalid number"]
    ELSE IF x.v < 0 THEN [ok |-> FALSE, error |-> "must be greater than 0"]
    ELSE [ok |-> TRUE, nan |-> FALSE, val |-> x.v]

\* A plausible slip: only zero is refused, a negative number passes.
positive_float_nonzero(x) ==
    IF x.k = "nan" THEN [ok |-> TRUE, nan |-> TRUE, val |-> 0]
    ELSE IF x.k # "num" THEN [ok |-> FALSE, error |-> "invalid number"]
    ELSE IF x.v = 0 THEN [ok |-> FALSE, error |-> "must be greater than 0"]
    ELSE [ok |-> TRUE, nan |-> FALSE, val |-> x.v]

\* float(x) and the test that follows it in api_add_expense, api_update_expense
\* and api_set_budget: TypeError / ValueError, then "must be greater than 0"
\* when the number is <= 0.  NaN (which json.loads reads) is a float and is
\* not <= 0, so it passes.
positive_float(x) ==
    IF x.k = "nan" THEN [ok |-> TRUE, nan |-> TRUE, val |-> 0]
    ELSE IF x.k # "num" THEN [ok |-> FALSE, error |-> "invalid number"]
    ELSE IF x.v <= 0 THEN [ok |-> FALSE, error |-> "must be greater than 0"]
    ELSE [ok |-> TRUE, nan |-> FALSE, val |-> x.v]

\* A plausible slip: the user id of the session is trusted without the lookup.
current_user_unchecked(c) ==
    IF sessions[c] = 0 THEN NoRow ELSE [found |-> TRUE, id |-> sessions[c]]

current_user(c) ==
    IF sessions[c] = 0 THEN NoRow ELSE find_user_by_id(users, sessions[c])

Reply(op, c, status, body) ==
    last' = [op |-> op, client |-> c, status |-> status, body |-> body]

Err(msg) == [error |-> msg]

Unauthorized(op, c) ==
    /\ Reply(op, c, 401, Err("authentication required"))
    /\ UNCHANGED <<users, expenses, budgets, categories, flight, seeded, sessions>>

\* api_signup up to its call of storage.save_user.
signup_request(c, username, password) ==
    LET name == strip(OrEmpty(username))
    IN  IF ~Truthy(name) \/ password = ""
        THEN [ok |-> FALSE, status |-> 400,
              body |-> Err("username and password required")]
        ELSE IF find_user_by_username(users, name).found
        THEN [ok |-> FALSE, status |-> 400, body |-> Err("username already exists")]
        ELSE [ok |-> TRUE, user |-> UserRow(name, PwHash(password))]

\* The rest of api_signup: storage.save_user, login_user and the answer.  An
\* exception of save_user is not caught: the request ends with 500 before
\* login_user.
signup_write(c, user) ==
    LET r == save_user(users, user)
    IN  /\ users' = r.table
        /\ IF r.ok
           THEN /\ sessions' = [sessions EXCEPT ![c] = r.result.id]
                /\ Reply("api_signup", c, 201,
                         [id |-> r.result.id, username |-> r.result.username])
           ELSE /\ sessions' = sessions
                /\ Reply("api_signup", c, 500, Err(r.error))
        /\ UNCHANGED <<expenses, budgets, categories, seeded>>

api_signup(c, username, password) ==
    LET req == signup_request(c, username, password)
    IN  IF ~req.ok
        THEN /\ Reply("api_signup", c, req.status, req.body)
             /\ UNCHANGED <<users, expenses, budgets, categories, flight, seeded,
                            sessions>>
        ELSE /\ signup_write(c, req.user)
             /\ UNCHANGED flight

api_signin(c, username, password) ==
    LET name == strip(OrEmpty(username))
        user == find_user_by_username(users, name)
    IN  IF ~Truthy(name) \/ password = ""
        THEN /\ Reply("api_signin", c, 400, Err("username and password required"))
             /\ UNCHANGED <<users, expenses, budgets, categories, flight, seeded,
                            sessions>>
        ELSE IF ~user.found \/ ~check_password_hash(user.password_hash, password)
        THEN /\ Reply("api_signin", c, 401, Err("invalid credentials"))
             /\ UNCHANGED <<users, expenses, budgets, categories, flight, seeded,
                            sessions>>
        ELSE /\ sessions' = [sessions EXCEPT ![c] = user.id]
             /\ Reply("api_signin", c, 200,
                      [id |-> user.id, username |-> user.username])
             /\ UNCHANGED <<users, expenses, budgets, categories, flight, seeded>>

api_signout(c) ==
    /\ sessions' = [sessions EXCEPT ![c] = 0]
    /\ Reply("api_signout", c, 200, [message |-> "signed out"])
    /\ UNCHANGED <<users, expenses, budgets, categories, flight, seeded>>

\* A plausible slip: an omitted date is not replaced by the current date.
add_request_no_default_date(c, data) ==
    LET user == current_user(c)
        amount == positive_float(data.amount)
        category == GetOr(data.category, Uncategorized)
        note == GetOr(data.note, <<>>)
        given == Get(data.date)
    IN  IF ~user.found
        THEN [ok |-> FALSE, status |-> 401, body |-> Err("authentication required")]
        ELSE IF ~amount.ok
        THEN [ok |-> FALSE, status |-> 400, body |-> Err(amount.error)]
        ELSE IF Truthy(given) /\ ~IsIsoDateTime(given)
        THEN [ok |-> FALSE, status |-> 400, body |-> Err("invalid date")]
        ELSE [ok |-> TRUE, nan |-> amount.nan,
              expense |-> ExpenseRow(user.id, amount.val, category, given, note)]

\* A plausible slip: a category that is not in the user's registry is refused.
add_request_registered_only(c, data) ==
    LET user == current_user(c)
        amount == positive_float(data.amount)
        category == GetOr(data.category, Uncategorized)
        note == GetOr(data.note, <<>>)
        given == Get(data.date)
        date_str == IF Truthy(given) THEN given ELSE UtcToday
    IN  IF ~user.found
        THEN [ok |-> FALSE, status |-> 401, body |-> Err("authentication required")]
        ELSE IF ~amount.ok
        THEN [ok |-> FALSE, status |-> 400, body |-> Err(amount.error)]
        ELSE IF Truthy(given) /\ ~IsIsoDateTime(given)
        THEN [ok |-> FALSE, status |-> 400, body |-> Err("invalid date")]
        ELSE IF \A i \in RowsOf(categories, user.id) : categories[i].name # category
        THEN [ok |-> FALSE, status |-> 400, body |-> Err("unknown category")]
        ELSE [ok |-> TRUE, nan |-> amount.nan,
              expense |-> ExpenseRow(user.id, amount.val, category, date_str, note)]

\* api_add_expense up to its call of storage.save_expense: the answer it
\* returns early, or the expense handed to save_expense.
add_request(c, data) ==
    LET user == current_user(c)
        amount == positive_float(data.amount)
        category == GetOr(data.category, Uncategorized)
        note == GetOr(data.note, <<>>)
        given == Get(data.date)
        date_str == IF Truthy(given) THEN given ELSE UtcToday
    IN  IF ~user.found
        THEN [ok |-> FALSE, status |-> 401, body |-> Err("authentication required")]
        ELSE IF ~amount.ok
        THEN [ok |-> FALSE, status |-> 400, body |-> Err(amount.error)]
        ELSE IF Truthy(given) /\ ~IsIsoDateTime(given)
        THEN [ok |-> FALSE, status |-> 400, body |-> Err("invalid date")]
        ELSE [ok |-> TRUE, nan |-> amount.nan,
              expense |-> ExpenseRow(user.id, amount.val, category, date_str, note)]

api_add_expense(c, data) ==
    LET req == add_request(c, data)
        same == UNCHANGED <<users, expenses, budgets, categories, flight, seeded,
                            sessions>>
    IN  IF ~req.ok
        THEN Reply("api_add_expense", c, req.status, req.body) /\ same
        ELSE IF req.nan
        THEN \* SQLite binds NaN as NULL; amount is a NOT NULL column
             Reply("api_add_expense", c, 500, Err("IntegrityError")) /\ same
        ELSE LET r == save_expense(expenses, req.expense)
             IN  /\ expenses' = r.table
                 /\ IF r.ok THEN Reply("api_add_expense", c, 201, r.result)
                            ELSE Reply("api_add_expense", c, 500, Err(r.error))
                 /\ UNCHANGED <<users, budgets, categories, flight, seeded, sessions>>

api_get_expense(c, expense_id) ==
    LET user == current_user(c)
        expense == find_expense(expenses, expense_id)
    IN  /\ IF ~user.found
           THEN Reply("api_get_expense", c, 401, Err("authentication required"))
           ELSE IF ~expense.found \/ expense.user_id # user.id
           THEN Reply("api_get_expense", c, 404, Err("not found"))
           ELSE Reply("api_get_expense", c, 200, expense)
        /\ UNCHANGED <<users, expenses, budgets, categories, flight, seeded, sessions>>

\* A plausible slip: the body's user_id is passed on to the storage as well.
update_request_passthrough(c, expense_id, data) ==
    LET user == current_user(c)
        it == find_expense(expenses, expense_id)
        amount == positive_float(data.amount)
        allowed ==
            (IF data.amount.k = "absent" THEN [x \in {} |-> 0]
             ELSE [x \in {"amount"} |-> amount.val])
            @@ (IF data.category = Absent THEN [x \in {} |-> 0]
                ELSE [x \in {"category"} |-> data.category])
            @@ (IF data.date = Absent THEN [x \in {} |-> 0]
                ELSE [x \in {"date"} |-> data.date])
            @@ (IF data.note = Absent THEN [x \in {} |-> 0]
                ELSE [x \in {"note"} |-> data.note])
            @@ (IF "user_id" \in DOMAIN data /\ data.user_id.k = "num"
                THEN [x \in {"user_id"} |-> data.user_id.v]
                ELSE [x \in {} |-> 0])
    IN  IF ~user.found
        THEN [ok |-> FALSE, status |-> 401, body |-> Err("authentication required")]
        ELSE IF ~it.found \/ it.user_id # user.id
        THEN [ok |-> FALSE, status |-> 404, body |-> Err("not found")]
        ELSE IF data.amount.k # "absent" /\ ~amount.ok
        THEN [ok |-> FALSE, status |-> 400, body |-> Err(amount.error)]
        ELSE IF data.date # Absent /\ ~IsIsoDateTime(data.date)
        THEN [ok |-> FALSE, status |-> 400, body |-> Err("invalid date")]
        ELSE IF DOMAIN allowed = {}
        THEN [ok |-> FALSE, status |-> 400, body |-> Err("no valid update fields")]
        ELSE [ok |-> TRUE, allowed |-> allowed,
              nan |-> data.amount.k # "absent" /\ amount.nan]

\* A plausible slip: the date is validated only when it is not empty, as in
\* api_add_expense, and passed on as it is.
update_request_date_if_given(c, expense_id, data) ==
    LET user == current_user(c)
        it == find_expense(expenses, expense_id)
        amount == positive_float(data.amount)
        allowed ==
            (IF data.amount.k = "absent" THEN [x \in {} |-> 0]
             ELSE [x \in {"amount"} |-> amount.val])
            @@ (IF data.category = Absent THEN [x \in {} |-> 0]
                ELSE [x \in {"category"} |-> data.category])
            @@ (IF data.date = Absent THEN [x \in {} |-> 0]
                ELSE [x \in {"date"} |-> data.date])
            @@ (IF data.note = Absent THEN [x \in {} |-> 0]
                ELSE [x \in {"note"} |-> data.note])
    IN  IF ~user.found
        THEN [ok |-> FALSE, status |-> 401, body |-> Err("authentication required")]
        ELSE IF ~it.found \/ it.user_id # user.id
        THEN [ok |-> FALSE, status |-> 404, body |-> Err("not found")]
        ELSE IF data.amount.k # "absent" /\ ~amount.ok
        THEN [ok |-> FALSE, status |-> 400, body |-> Err(amount.error)]
        ELSE IF data.date # Absent /\ Truthy(data.date) /\ ~IsIsoDateTime(data.date)
        THEN [ok |-> FALSE, status |-> 400, body |-> Err("invalid date")]
        ELSE IF DOMAIN allowed = {}
        THEN [ok |-> FALSE, status |-> 400, body |-> Err("no valid update fields")]
        ELSE [ok |-> TRUE, allowed |-> allowed,
              nan |-> data.amount.k # "absent" /\ amount.nan]

\* api_update_expense up to its call of storage.update_expense: the answer it
\* returns early, or the validated fields ("allowed").
update_request(c, expense_id, data) ==
    LET user == current_user(c)
        it == find_expense(expenses, expense_id)
        amount == positive_float(data.amount)
        allowed ==
            (IF data.amount.k = "absent" THEN [x \in {} |-> 0]
             ELSE [x \in {"amount"} |-> amount.val])
            @@ (IF data.category = Absent THEN [x \in {} |-> 0]
                ELSE [x \in {"category"} |-> data.category])
            @@ (IF data.date = Absent THEN [x \in {} |-> 0]
                ELSE [x \in {"date"} |-> data.date])
            @@ (IF data.note = Absent THEN [x \in {} |-> 0]
                ELSE [x \in {"note"} |-> data.note])
    IN  IF ~user.found
        THEN [ok |-> FALSE, status |-> 401, body |-> Err("authentication required")]
        ELSE IF ~it.found \/ it.user_id # user.id
        THEN [ok |-> FALSE, status |-> 404, body |-> Err("not found")]
        ELSE IF data.amount.k # "absent" /\ ~amount.ok
        THEN [ok |-> FALSE, status |-> 400, body |-> Err(amount.error)]
        ELSE IF data.date # Absent /\ ~IsIsoDateTime(data.date)
        THEN [ok |-> FALSE, status |-> 400, body |-> Err("invalid date")]
        ELSE IF DOMAIN allowed = {}
        THEN [ok |-> FALSE, status |-> 400, body |-> Err("no valid update fields")]
        ELSE [ok |-> TRUE, allowed |-> allowed,
              nan |-> data.amount.k # "absent" /\ amount.nan]

\* The rest of api_update_expense: storage.update_expense and the answer,
\* which is 200 whatever update_expense returned.
update_write(c, expense_id, allowed, nan) ==
    LET r == update_expense(expenses, expense_id, allowed)
    IN  /\ IF nan /\ expense_id \in DOMAIN expenses
           THEN \* SQLite binds NaN as NULL; amount is a NOT NULL column
                /\ expenses' = expenses
                /\ Reply("api_update_expense", c, 500, Err("IntegrityError"))
           ELSE /\ expenses' = r.table
                /\ IF ~r.ok THEN Reply("api_update_expense", c, 500, Err(r.error))
                   ELSE IF ~r.found
                   THEN Reply("api_update_expense", c, 200, [null |-> TRUE])
                   ELSE Reply("api_update_expense", c, 200, r.result)
        /\ UNCHANGED <<users, budgets, categories, seeded, sessions>>

\* A plausible slip: a validated amount is written before the date is looked at.
api_update_expense_eager(c, expense_id, data) ==
    LET req == update_request(c, expense_id, data)
        amount == positive_float(data.amount)
    IN  IF ~req.ok /\ req.body = Err("invalid date") /\ data.amount.k # "absent"
        THEN /\ expenses' = update_expense(expenses, expense_id,
                                           [x \in {"amount"} |-> amount.val]).table
             /\ Reply("api_update_expense", c, req.status, req.body)
             /\ UNCHANGED <<users, budgets, categories, flight, seeded, sessions>>
        ELSE IF ~req.ok
        THEN /\ Reply("api_update_expense", c, req.status, req.body)
             /\ UNCHANGED <<users, expenses, budgets, categories, flight, seeded,
                            sessions>>
        ELSE /\ update_write(c, expense_id, req.allowed, req.nan)
             /\ UNCHANGED flight

api_update_expense(c, expense_id, data) ==
    LET req == update_request(c, expense_id, data)
    IN  IF ~req.ok
        THEN /\ Reply("api_update_expense", c, req.status, req.body)
             /\ UNCHANGED <<users, expenses, budgets, categories, flight, seeded,
                            sessions>>
        ELSE /\ update_write(c, expense_id, req.allowed, req.nan)
             /\ UNCHANGED flight

\* api_delete_expense up to its call of storage.delete_expense.
delete_request(c, expense_id) ==
    LET user == current_user(c)
        it == find_expense(expenses, expense_id)
    IN  IF ~user.found
        THEN [ok |-> FALSE, status |-> 401, body |-> Err("authentication required")]
        ELSE IF ~it.found \/ it.user_id # user.id
        THEN [ok |-> FALSE, status |-> 404, body |-> Err("not found")]
        ELSE [ok |-> TRUE]

\* The rest of api_delete_expense: storage.delete_expense and the answer.
delete_write(c, expense_id) ==
    LET r == delete_expense(expenses, expense_id)
    IN  /\ expenses' = r.table
        /\ IF r.found
           THEN Reply("api_delete_expense", c, 200, [deleted |-> expense_id])
           ELSE Reply("api_delete_expense", c, 500, Err("delete failed"))
        /\ UNCHANGED <<users, budgets, categories, seeded, sessions>>

api_delete_expense(c, expense_id) ==
    LET req == delete_request(c, expense_id)
    IN  IF ~req.ok
        THEN /\ Reply("api_delete_expense", c, req.status, req.body)
             /\ UNCHANGED <<users, expenses, budgets, categories, flight, seeded,
                            sessions>>
        ELSE /\ delete_write(c, expense_id)
             /\ UNCHANGED flight

api_get_budget(c, month_arg) ==
    LET user == current_user(c)
        month == IF Truthy(Get(month_arg)) THEN month_arg ELSE SubSeq(UtcToday, 1, 7)
    IN  /\ IF ~user.found
           THEN Reply("api_get_budget", c, 401, Err("authentication required"))
           ELSE IF ~IsYearMonth(month)
           THEN Reply("api_get_budget", c, 400, Err("invalid month"))
           ELSE Reply("api_get_budget", c, 200,
                      get_budget_status(budgets, expenses, user.id, month))
        /\ UNCHANGED <<users, expenses, budgets, categories, flight, seeded, sessions>>

\* api_set_budget up to its call of storage.upsert_budget.
budget_request(c, data) ==
    LET user == current_user(c)
        stripped == strip(OrEmpty(Get(data.month)))
        month == IF Truthy(stripped) THEN stripped ELSE SubSeq(UtcToday, 1, 7)
        limit_val == positive_float(data.limit_amount)
    IN  IF ~user.found
        THEN [ok |-> FALSE, status |-> 401, body |-> Err("authentication required")]
        ELSE IF ~IsYearMonth(month)
        THEN [ok |-> FALSE, status |-> 400, body |-> Err("invalid month")]
        ELSE IF ~limit_val.ok
        THEN [ok |-> FALSE, status |-> 400, body |-> Err(limit_val.error)]
        ELSE [ok |-> TRUE, nan |-> limit_val.nan, user_id |-> user.id,
              month |-> month, limit_val |-> limit_val.val]

api_set_budget(c, data) ==
    LET req == budget_request(c, data)
        same == UNCHANGED <<users, expenses, budgets, categories, flight, seeded,
                            sessions>>
    IN  IF ~req.ok
        THEN Reply("api_set_budget", c, req.status, req.body) /\ same
        ELSE IF req.nan
        THEN \* SQLite binds NaN as NULL; limit_amount is a NOT NULL column
             Reply("api_set_budget", c, 500, Err("IntegrityError")) /\ same
        ELSE LET r == upsert_budget(budgets, req.user_id, req.month, req.limit_val)
             IN  /\ budgets' = r.table
                 /\ Reply("api_set_budget", c, 200,
                          [budget |-> r.result,
                           status |-> get_budget_status(r.table, expenses,
                                                        req.user_id, req.month)])
                 /\ UNCHANGED <<users, expenses, categories, flight, seeded, sessions>>

-----------------------------------------------------------------------------
(* GET /api/expenses: the listing of a user's ledger.                       *)

ExpenseDict(exps, i) == [id |-> i] @@ exps[i]

\* ORDER BY date DESC, id DESC as SQLite evaluates it: NULL is smaller than
\* every date, so dateless rows come last.
SqlBefore(exps, i, k) ==
    LET di == exps[i].date
        dk == exps[k].date
    IN  IF di = dk THEN i > k
        ELSE IF di = NoneT THEN FALSE
        ELSE IF dk = NoneT THEN TRUE
        ELSE TextLess(dk, di)

RECURSIVE OrderBy(_, _)
OrderBy(exps, ids) ==
    IF ids = {} THEN <<>>
    ELSE LET i == CHOOSE j \in ids : \A k \in ids \ {j} : SqlBefore(exps, j, k)
         IN  <<ExpenseDict(exps, i)>> \o OrderBy(exps, ids \ {i})

get_user_expenses(exps, u) == OrderBy(exps, RowsOf(exps, u))

\* A plausible slip: the bounds of the range are exclusive.
in_range_exclusive(it, date_from, date_to) ==
    IF ~Truthy(it.date) THEN TRUE
    ELSE IF Truthy(date_from) /\ ~TextLess(date_from, it.date) THEN FALSE
    ELSE IF Truthy(date_to) /\ ~TextLess(it.date, date_to) THEN FALSE
    ELSE TRUE

\* in_range of api_list_expenses: str comparison of the item's date with the
\* bounds that are given; an item without a date is always in range.
in_range(it, date_from, date_to) ==
    IF ~Truthy(it.date) THEN TRUE
    ELSE IF Truthy(date_from) /\ TextLess(it.date, date_from) THEN FALSE
    ELSE IF Truthy(date_to) /\ TextLess(date_to, it.date) THEN FALSE
    ELSE TRUE

\* (date, id) of x is greater than that of y; both dates are str, or both None.
KeyGreater(x, y) ==
    IF x.date = y.date THEN x.id > y.id
    ELSE TextLess(y.date, x.date)

RECURSIVE SortedDesc(_)
SortedDesc(items) ==
    IF items = <<>> THEN <<>>
    ELSE LET n == CHOOSE j \in 1..Len(items) :
                     \A k \in 1..Len(items) : k # j => KeyGreater(items[j], items[k])
         IN  <<items[n]>>
             \o SortedDesc(SubSeq(items, 1, n - 1) \o SubSeq(items, n + 1, Len(items)))

\* filtered.sort(key=lambda x: (x.get("date", ""), x.get("id", 0)),
\* reverse=True): the key "date" is always present, so a dateless item has
\* the key (None, id), and comparing it with a (str, id) key raises TypeError.
sort_by_date_id(items) ==
    IF /\ \E k \in 1..Len(items) : items[k].date = NoneT
       /\ \E k \in 1..Len(items) : items[k].date # NoneT
    THEN [ok |-> FALSE, error |-> "TypeError"]
    ELSE [ok |-> TRUE, result |-> SortedDesc(items)]

api_list_expenses(c, category, date_from, date_to) ==
    LET user == current_user(c)
        args == [category |-> category, date_from |-> date_from,
                 date_to |-> date_to]
        cat == Get(category)
        items == get_user_expenses(expenses, user.id)
        filtered == SelectSeq(items,
                       LAMBDA it : /\ (cat = NoneT \/ it.category = cat)
                                   /\ in_range(it, Get(date_from), Get(date_to)))
        sorted == sort_by_date_id(filtered)
    IN  /\ IF ~user.found
           THEN last' = [op |-> "api_list_expenses", client |-> c, status |-> 401,
                         body |-> Err("authentication required"), args |-> args]
           ELSE IF ~sorted.ok
           THEN last' = [op |-> "api_list_expenses", client |-> c, status |-> 500,
                         body |-> Err(sorted.error), args |-> args]
           ELSE last' = [op |-> "api_list_expenses", client |-> c, status |-> 200,
                         body |-> sorted.result, args |-> args]
        /\ UNCHANGED <<users, expenses, budgets, categories, flight, seeded, sessions>>

\* SpecList: ledgers of two users as the store can hold them (dated and
\* dateless rows, written by save_expense), listed by alice with every
\* combination of filters.
MaxListRows == 2

ListCategories == {Absent, Gym}
ListFrom == {Absent, D240105, D240120}
ListTo   == {Absent, D240105, D240120}

LedgerSave(u, cat, d) ==
    /\ Cardinality(DOMAIN expenses) < MaxListRows
    /\ LET r == save_expense(expenses, ExpenseRow(u, 1, cat, d, <<>>))
       IN  /\ expenses' = r.table
           /\ last' = [op |-> "save_expense", user |-> u, ok |-> r.ok]
    /\ UNCHANGED <<users, budgets, categories, flight, seeded, sessions>>

InitList ==
    /\ users = TwoUsers
    /\ expenses = EmptyTable
    /\ budgets = EmptyTable
    /\ categories = EmptyTable
    /\ flight = EmptyTable
    /\ last = NoCall
    /\ seeded = {}
    /\ sessions = [c \in Clients |-> 1]

NextList ==
    \/ \E u \in DOMAIN users, cat \in {Gym, Other}, d \in StoreDates :
          LedgerSave(u, cat, d)
    \/ \E c \in Clients, cat \in ListCategories, f \in ListFrom, t \in ListTo :
          api_list_expenses(c, cat, f, t)

SpecList == InitList /\ [][NextList]_vars

-----------------------------------------------------------------------------
(* summary_by_category.                                                     *)

CategoriesOf(exps, u) == {exps[i].category : i \in RowsOf(exps, u)}

\* The orders in which the GROUP BY may return its rows (SQL fixes none).
RowOrders(groups) ==
    {o \in [1..Cardinality(groups) -> groups] :
        \A a, b \in DOMAIN o : o[a] = o[b] => a = b}

\* cat or "Uncategorized"
DisplayKey(cat) == IF Truthy(cat) THEN cat ELSE Uncategorized

\* summary_by_category for the grouped rows taken in the order rows: the dict
\* comprehension keeps, for a key that occurs twice, the value of the later row.
summary_by_category(exps, u, rows) ==
    LET total(cat) == SumAmount(exps, {i \in RowsOf(exps, u) : exps[i].category = cat})
        keys == {DisplayKey(rows[k]) : k \in DOMAIN rows}
        lastRow(key) == CHOOSE k \in DOMAIN rows :
                            /\ DisplayKey(rows[k]) = key
                            /\ \A j \in DOMAIN rows : DisplayKey(rows[j]) = key => j <= k
    IN  [key \in keys |-> total(rows[lastRow(key)])]

\* SpecSummary: ledgers of two users written by save_expense with a named,
\* the default and an empty category, and summarised.
SummaryCategories == {Gym, Uncategorized, <<>>}

StoreSummary(u, rows) ==
    /\ last' = [op |-> "summary_by_category", user |-> u,
                result |-> summary_by_category(expenses, u, rows)]
    /\ UNCHANGED <<users, expenses, budgets, categories, flight, seeded, sessions>>

NextSummary ==
    \/ \E u \in DOMAIN users, cat \in SummaryCategories : LedgerSave(u, cat, D240105)
    \/ \E u \in DOMAIN users :
          \E rows \in RowOrders(CategoriesOf(expenses, u)) : StoreSummary(u, rows)

SpecSummary == InitStore /\ [][NextSummary]_vars

-----------------------------------------------------------------------------
(* Spec: requests served one after another, from the empty database.       *)

MaxExpenseId == 2

DT240105 == D240105 \o <<"T", "1", "0", ":", "0", "0">>
BadDate  == <<"2", "0", "2", "4", "-", "1", "3", "-", "0", "1">>
BadMonth == <<"2", "0", "2", "4", "-", "1", "3">>

ApiUsernames  == {Alice, <<>>}
ApiPasswords  == {"pw", ""}
ApiAmounts    == {NumV(-1), NumV(0), NumV(1), TextV, AbsentV}
ApiNewAmounts == {NumV(-1), NumV(0), NumV(1), AbsentV}
ApiCategories == {Absent, NoneT}
ApiDates      == {Absent, D240105, DT240105, BadDate}
ApiNewDates   == {Absent, D240105, DT240105}
ApiMonths     == {Absent, M2401, <<" ">> \o M2401, BadMonth}
ApiLimits     == {NumV(-1), NumV(0), NumV(1), NumV(2), AbsentV, NanV}

ExpenseBody(a, cat, d, n) == [amount |-> a, category |-> cat, date |-> d, note |-> n]

\* A body that also carries a key the handlers do not recognise.
WithUserId(body, x) == body @@ [user_id |-> x]
ApiExtras == {AbsentV, NumV(9)}

Init ==
    /\ users = EmptyTable
    /\ expenses = EmptyTable
    /\ budgets = EmptyTable
    /\ categories = EmptyTable
    /\ flight = EmptyTable
    /\ last = NoCall
    /\ seeded = {}
    /\ sessions = NoSessions

Next ==
    \/ \E c \in Clients, n \in ApiUsernames, p \in ApiPasswords : api_signup(c, n, p)
    \/ \E c \in Clients, n \in ApiUsernames, p \in ApiPasswords : api_signin(c, n, p)
    \/ \E c \in Clients : api_signout(c)
    \/ \E c \in Clients, a \in ApiAmounts, cat \in ApiCategories, d \in ApiDates :
          /\ NewId(expenses) <= MaxExpenseId
          /\ api_add_expense(c, ExpenseBody(a, cat, d, Absent))
    \/ \E c \in Clients, i \in 1..NewId(expenses), a \in ApiNewAmounts,
          cat \in ApiCategories, d \in ApiNewDates, x \in ApiExtras :
          api_update_expense(c, i, WithUserId(ExpenseBody(a, cat, d, Absent), x))
    \/ \E c \in Clients, i \in 1..NewId(expenses) : api_delete_expense(c, i)
    \/ \E c \in Clients, i \in 1..NewId(expenses) : api_get_expense(c, i)
    \/ \E c \in Clients, m \in ApiMonths : api_get_budget(c, m)
    \/ \E c \in Clients, m \in ApiMonths, l \in ApiLimits :
          api_set_budget(c, [month |-> m, limit_amount |-> l])

Spec == Init /\ [][Next]_vars

-----------------------------------------------------------------------------
(* SpecRace: requests of two users served concurrently.  Every storage     *)
(* call is one transaction, so a handler that makes two calls (PUT and      *)
(* DELETE of /api/expenses/<id>: find_expense, then update_expense or       *)
(* delete_expense) takes two steps, and other requests run in between.      *)
(* flight holds, per connection, the request that has passed its first      *)
(* call.  alice has two connections, bob one.                               *)

Conns == {"a1", "a2", "b1"}
ConnSessions == [c \in Conns |-> IF c = "b1" THEN 2 ELSE 1]
Idle == [op |-> "idle"]

RaceBody == ExpenseBody(NumV(1), Gym, D240105, Absent)
RaceUpdate == ExpenseBody(NumV(2), Absent, Absent, Absent)

api_update_expense_begin(c, expense_id, data) ==
    LET req == update_request(c, expense_id, data)
    IN  /\ flight[c] = Idle
        /\ IF ~req.ok
           THEN /\ Reply("api_update_expense", c, req.status, req.body)
                /\ UNCHANGED flight
           ELSE /\ flight' = [flight EXCEPT ![c] =
                                 [op |-> "update", id |-> expense_id,
                                  allowed |-> req.allowed, nan |-> req.nan]]
                /\ UNCHANGED last
        /\ UNCHANGED <<users, expenses, budgets, categories, seeded, sessions>>

api_update_expense_end(c) ==
    /\ flight[c].op = "update"
    /\ update_write(c, flight[c].id, flight[c].allowed, flight[c].nan)
    /\ flight' = [flight EXCEPT ![c] = Idle]

api_delete_expense_begin(c, expense_id) ==
    LET req == delete_request(c, expense_id)
    IN  /\ flight[c] = Idle
        /\ IF ~req.ok
           THEN /\ Reply("api_delete_expense", c, req.status, req.body)
                /\ UNCHANGED flight
           ELSE /\ flight' = [flight EXCEPT ![c] =
                                 [op |-> "delete", id |-> expense_id]]
                /\ UNCHANGED last
        /\ UNCHANGED <<users, expenses, budgets, categories, seeded, sessions>>

api_delete_expense_end(c) ==
    /\ flight[c].op = "delete"
    /\ delete_write(c, flight[c].id)
    /\ flight' = [flight EXCEPT ![c] = Idle]

InitRace ==
    /\ users = TwoUsers
    /\ expenses = EmptyTable
    /\ budgets = EmptyTable
    /\ categories = EmptyTable
    /\ flight = [c \in Conns |-> Idle]
    /\ last = NoCall
    /\ seeded = {}
    /\ sessions = ConnSessions

NextRace ==
    \/ \E c \in Conns :
          /\ flight[c] = Idle
          /\ NewId(expenses) <= MaxExpenseId
          /\ api_add_expense(c, RaceBody)
    \/ \E c \in Conns, i \in 1..MaxExpenseId :
          flight[c] = Idle /\ api_get_expense(c, i)
    \/ \E c \in Conns, i \in 1..MaxExpenseId : api_update_expense_begin(c, i, RaceUpdate)
    \/ \E c \in Conns : api_update_expense_end(c)
    \/ \E c \in Conns, i \in 1..MaxExpenseId : api_delete_expense_begin(c, i)
    \/ \E c \in Conns : api_delete_expense_end(c)

SpecRace == InitRace /\ [][NextRace]_vars

-----------------------------------------------------------------------------
(* SpecCatRace: add_category and list_categories called concurrently for   *)
(* two users.  The SELECT of a call and its INSERT (flushed at the latest  *)
(* by the commit of get_session) are two steps; the INSERT is subject to    *)
(* the constraint uq_categories_user_name, and a violation raises           *)
(* IntegrityError, on which get_session rolls the transaction back.         *)

\* A plausible slip: the table has no unique constraint.
insert_unchecked(cats, u, names) ==
    [ok |-> TRUE, table |-> AddAll(cats, u, names)]

\* INSERT of one row per name for user u in one transaction under
\* UniqueConstraint("user_id", "name").
insert_unique(cats, u, names) ==
    IF \E i \in RowsOf(cats, u), k \in 1..Len(names) : cats[i].name = names[k]
    THEN [ok |-> FALSE, error |-> "IntegrityError", table |-> cats]
    ELSE [ok |-> TRUE, table |-> AddAll(cats, u, names)]

RaceNames == {Gym, <<" ">> \o Gym, Other, <<>>}

add_category_begin(c, name) ==
    LET u == sessions[c]
        n == strip(IF Truthy(name) THEN name ELSE <<>>)
        hit == {i \in DOMAIN categories :
                   categories[i].user_id = u /\ categories[i].name = n}
    IN  /\ flight[c] = Idle
        /\ IF ~Truthy(n)
           THEN /\ last' = [op |-> "add_category", client |-> c, ok |-> FALSE,
                            error |-> "ValueError"]
                /\ UNCHANGED flight
           ELSE IF hit # {}
           THEN /\ last' = [op |-> "add_category", client |-> c, ok |-> TRUE,
                            result |-> [id |-> CHOOSE j \in hit : TRUE, name |-> n]]
                /\ UNCHANGED flight
           ELSE /\ flight' = [flight EXCEPT ![c] = [op |-> "add", name |-> n]]
                /\ UNCHANGED last
        /\ UNCHANGED <<users, expenses, budgets, categories, seeded, sessions>>

add_category_end(c) ==
    /\ flight[c].op = "add"
    /\ LET r == insert_unique(categories, sessions[c], <<flight[c].name>>)
       IN  /\ categories' = r.table
           /\ last' = IF r.ok
                      THEN [op |-> "add_category", client |-> c, ok |-> TRUE,
                            result |-> [id |-> NewId(categories),
                                        name |-> flight[c].name]]
                      ELSE [op |-> "add_category", client |-> c, ok |-> FALSE,
                            error |-> r.error]
    /\ flight' = [flight EXCEPT ![c] = Idle]
    /\ UNCHANGED <<users, expenses, budgets, seeded, sessions>>

\* list_categories up to the SELECT of _ensure_default_categories; when the
\* user has rows, nothing is written and the second session lists them.
list_categories_begin(c) ==
    LET u == sessions[c]
    IN  /\ flight[c] = Idle
        /\ IF RowsOf(categories, u) # {}
           THEN /\ last' = [op |-> "list_categories", client |-> c, ok |-> TRUE,
                            result |-> order_by_name(categories,
                                                     RowsOf(categories, u))]
                /\ UNCHANGED flight
           ELSE /\ flight' = [flight EXCEPT ![c] = [op |-> "seed"]]
                /\ UNCHANGED last
        /\ UNCHANGED <<users, expenses, budgets, categories, seeded, sessions>>

\* The commit of _ensure_default_categories and, when it succeeds, the listing.
list_categories_end(c) ==
    /\ flight[c].op = "seed"
    /\ LET u == sessions[c]
           r == insert_unique(categories, u, DEFAULT_CATEGORIES)
       IN  /\ categories' = r.table
           /\ seeded' = IF r.ok THEN seeded \cup {u} ELSE seeded
           /\ last' = IF r.ok
                      THEN [op |-> "list_categories", client |-> c, ok |-> TRUE,
                            result |-> order_by_name(r.table, RowsOf(r.table, u))]
                      ELSE [op |-> "list_categories", client |-> c, ok |-> FALSE,
                            error |-> r.error]
    /\ flight' = [flight EXCEPT ![c] = Idle]
    /\ UNCHANGED <<users, expenses, budgets, sessions>>

NextCatRace ==
    \/ \E c \in Conns, n \in RaceNames : add_category_begin(c, n)
    \/ \E c \in Conns : add_category_end(c)
    \/ \E c \in Conns : list_categories_begin(c)
    \/ \E c \in Conns : list_categories_end(c)

SpecCatRace == InitRace /\ [][NextCatRace]_vars

-----------------------------------------------------------------------------
(* SpecSignupRace: signup requests served concurrently on three             *)
(* connections, from the empty database.  find_user_by_username and         *)
(* save_user are separate transactions.                                     *)

SignupNames == {Alice, <<" ">> \o Alice, Bob, <<>>}

api_signup_begin(c, username, password) ==
    LET req == signup_request(c, username, password)
    IN  /\ flight[c] = Idle
        /\ IF ~req.ok
           THEN /\ Reply("api_signup", c, req.status, req.body)
                /\ UNCHANGED flight
           ELSE /\ flight' = [flight EXCEPT ![c] =
                                 [op |-> "signup", user |-> req.user]]
                /\ UNCHANGED last
        /\ UNCHANGED <<users, expenses, budgets, categories, seeded, sessions>>

api_signup_end(c) ==
    /\ flight[c].op = "signup"
    /\ signup_write(c, flight[c].user)
    /\ flight' = [flight EXCEPT ![c] = Idle]

InitSignupRace ==
    /\ users = EmptyTable
    /\ expenses = EmptyTable
    /\ budgets = EmptyTable
    /\ categories = EmptyTable
    /\ flight = [c \in Conns |-> Idle]
    /\ last = NoCall
    /\ seeded = {}
    /\ sessions = [c \in Conns |-> 0]

NextSignupRace ==
    \/ \E c \in Conns, n \in SignupNames : api_signup_begin(c, n, "pw")
    \/ \E c \in Conns : api_signup_end(c)
    \/ \E c \in Conns : flight[c] = Idle /\ api_signout(c)

SpecSignupRace == InitSignupRace /\ [][NextSignupRace]_vars

-----------------------------------------------------------------------------
(* SpecMonth: one signed-in user adds January expenses and sets and reads   *)
(* budgets with months in several written forms.                            *)

M2401Short == <<"2", "0", "2", "4", "-", "1">>
M2400      == <<"2", "0", "2", "4", "-", "0", "0">>

MonthForms == {Absent, M2401, M2401Short, BadMonth, M2400}

InitMonth ==
    /\ users = (1 :> UserRow(Alice, PwHash("pw")))
    /\ expenses = EmptyTable
    /\ budgets = EmptyTable
    /\ categories = EmptyTable
    /\ flight = EmptyTable
    /\ last = NoCall
    /\ seeded = {}
    /\ sessions = [c \in Clients |-> 1]

NextMonth ==
    \/ \E c \in Clients :
          /\ NewId(expenses) <= MaxExpenseId
          /\ api_add_expense(c, ExpenseBody(NumV(2), Absent, D240105, Absent))
    \/ \E c \in Clients, m \in MonthForms, l \in {NumV(1), NumV(2)} :
          api_set_budget(c, [month |-> m, limit_amount |-> l])
    \/ \E c \in Clients, m \in MonthForms : api_get_budget(c, m)

SpecMonth == InitMonth /\ [][NextMonth]_vars

-----------------------------------------------------------------------------
(* Claims about the storage layer                                          *)

BudgetIds(buds, u, m) ==
    {i \in DOMAIN buds : buds[i].user_id = u /\ buds[i].month = m}

\* C2: after any sequence of upsert_budget calls there is at most one budget
\* row per (user_id, month); an upsert for a pair that has a row overwrites
\* its limit_amount, keeps its id and inserts nothing, and the stored limit is
\* the last one set.
C2_OneBudgetPerUserMonth ==
    /\ [](/\ \A u \in DOMAIN users, m \in StoreMonths :
                Cardinality(BudgetIds(budgets, u, m)) <= 1
          /\ last.op = "upsert_budget" =>
                /\ BudgetIds(budgets, last.user, last.month) = {last.result.id}
                /\ budgets[last.result.id].limit_amount = last.limit)
    /\ [][\A u \in DOMAIN users, m \in StoreMonths :
             BudgetIds(budgets, u, m) # {} =>
                /\ BudgetIds(budgets', u, m) = BudgetIds(budgets, u, m)
                /\ (last'.op = "upsert_budget" /\ last'.user = u /\ last'.month = m)
                      => DOMAIN budgets' = DOMAIN budgets]_vars

\* C2 witness: the last upsert overwrote the limit of a row that is not the
\* newest one, so it was an update of an existing row.
C2_Witness ==
    /\ last.op = "upsert_budget"
    /\ last.result.id < Max(DOMAIN budgets)
    /\ last.limit = 2
    /\ budgets[last.result.id].limit_amount = 2

DatedMonths(u) ==
    {SubSeq(expenses[i].date, 1, 7) :
        i \in {j \in RowsOf(expenses, u) : expenses[j].date # NoneT}}

\* C5: monthly_totals(user) has exactly the YYYY-MM months of the user's dated
\* expenses as keys, each with the sum of the amounts dated in that month; an
\* expense with no date contributes to no key and adds no key of its own.
C5_MonthlyTotalsDatedOnly ==
    last.op = "monthly_totals" =>
        /\ DOMAIN last.result = DatedMonths(last.user)
        /\ \A k \in DOMAIN last.result : last.result[k] = SpentIn(last.user, k)

\* C6: deleting a user removes every expense, budget and category of that
\* user; every row references an existing user; other users' rows are kept.
C6_CascadeNoOrphans ==
    /\ \A i \in DOMAIN expenses : expenses[i].user_id \in DOMAIN users
    /\ \A i \in DOMAIN budgets : budgets[i].user_id \in DOMAIN users
    /\ \A i \in DOMAIN categories : categories[i].user_id \in DOMAIN users
    /\ last.op = "delete_user" =>
          /\ last.ok
          /\ last.user \notin DOMAIN users
          /\ RowsOf(expenses, last.user) = {}
          /\ RowsOf(budgets, last.user) = {}
          /\ RowsOf(categories, last.user) = {}

-----------------------------------------------------------------------------
(* Claims about the category registry                                      *)

DefaultNames == {DEFAULT_CATEGORIES[i] : i \in 1..Len(DEFAULT_CATEGORIES)}

NamesOf(cats, u) == {cats[i].name : i \in RowsOf(cats, u)}

\* C7 as stated: the defaults are seeded exactly once; after the first
\* seeding no later list_categories call inserts the default set again, also
\* when the user has since deleted categories.
C7_SeededOnce ==
    [][\A u \in seeded :
          ~(last'.op = "list_categories" /\ last'.user = u
               /\ categories' # categories)]_vars

\* C7 amended: a list_categories call inserts the default set exactly when the
\* user holds no category row at the call; a user who holds at least one row
\* (also after deleting some) gets nothing inserted, a user who has deleted
\* every row is seeded again.
C7_SeedsExactlyWhenEmpty ==
    [][last'.op = "list_categories" =>
          IF RowsOf(categories, last'.user) = {}
          THEN /\ NamesOf(categories', last'.user) = DefaultNames
               /\ \A i \in DOMAIN categories :
                     i \in DOMAIN categories' /\ categories'[i] = categories[i]
          ELSE categories' = categories]_vars

\* C7 witness: a seeded user who has deleted some defaults has listed the
\* categories and holds fewer defaults than the default set.
C7_Witness ==
    /\ last.op = "list_categories"
    /\ last.user \in seeded
    /\ RowsOf(categories, last.user) # {}
    /\ \E n \in DefaultNames : n \notin NamesOf(categories, last.user)

\* C8: list_categories for a user with no category row inserts exactly the ten
\* names of DEFAULT_CATEGORIES and returns them sorted by name ascending;
\* calling it again at once inserts nothing and returns the same rows with
\* the same ids.
C8_SeedTenSortedIdempotent ==
    /\ [][(last'.op = "list_categories" /\ RowsOf(categories, last'.user) = {}) =>
             LET u == last'.user
                 new == DOMAIN categories' \ DOMAIN categories
                 res == last'.result
             IN  /\ Cardinality(new) = 10
                 /\ {categories'[i].name : i \in new} = DefaultNames
                 /\ \A i \in new : categories'[i].user_id = u
                 /\ Len(res) = 10
                 /\ {res[k].id : k \in 1..Len(res)} = new
                 /\ \A k \in 1..Len(res) : categories'[res[k].id].name = res[k].name
                 /\ \A k \in 1..(Len(res) - 1) :
                       TextLess(res[k].name, res[k + 1].name)]_vars
    /\ [](last.op = "list_categories" =>
             /\ list_categories(categories, last.user).table = categories
             /\ list_categories(categories, last.user).result = last.result)

\* C8 witness: a listing that returned the ten seeded defaults, "Bills &
\* Utilities" first and "Travel" last.
C8_Witness ==
    /\ last.op = "list_categories"
    /\ Len(last.result) = 10
    /\ NamesOf(categories, last.user) = DefaultNames
    /\ last.result[1].name = DEFAULT_CATEGORIES[5]
    /\ last.result[10].name = DEFAULT_CATEGORIES[8]

\* C9: add_category is idempotent on the trimmed name: when the user holds a
\* category named like the trimmed input its id is returned and the table is
\* unchanged, otherwise exactly one row with the trimmed name is inserted; an
\* empty or whitespace-only name fails with the empty-name error and changes
\* nothing.
C9_AddCategoryIdempotent ==
    [][last'.op = "add_category" =>
          LET u == last'.user
              n == strip(IF Truthy(last'.name) THEN last'.name ELSE <<>>)
              old == {i \in RowsOf(categories, u) : categories[i].name = n}
              new == DOMAIN categories' \ DOMAIN categories
          IN  IF n = <<>>
              THEN ~last'.ok /\ last'.error = "ValueError"
                      /\ categories' = categories
              ELSE IF old # {}
              THEN /\ categories' = categories
                   /\ last'.ok
                   /\ old = {last'.result.id}
                   /\ last'.result.name = n
              ELSE /\ last'.ok
                   /\ new = {last'.result.id}
                   /\ categories'[last'.result.id] = CategoryRow(u, n)
                   /\ last'.result.name = n
                   /\ \A i \in DOMAIN categories :
                         i \in DOMAIN categories' /\ categories'[i] = categories[i]]_vars

\* C9 witness: adding " Gym " returned the row "Gym" that existed before (it
\* is not the newest row of the table).
C9_Witness ==
    /\ last.op = "add_category"
    /\ last.name = <<" ">> \o Gym \o <<" ">>
    /\ last.ok
    /\ last.result.name = Gym
    /\ categories[last.result.id] = CategoryRow(last.user, Gym)
    /\ last.result.id < Max(DOMAIN categories)

-----------------------------------------------------------------------------
(* Claims about the API.                                                    *)

ApiMonthsSeen == {M2401, M2402}

\* C4: in every state reachable through API requests, get_budget_status(user,
\* month) has status "no_budget" exactly when the user has no budget row for
\* that month, and then limit and remaining are null while spent is that
\* month's total; every stored limit is > 0, so the branch "no_budget" with
\* a limit is never taken, and a 200 answer of GET /api/budget agrees.
C4_NoBudgetIffNoRow ==
    /\ \A b \in DOMAIN budgets : budgets[b].limit_amount > 0
    /\ \A u \in DOMAIN users, m \in ApiMonthsSeen :
          LET s == get_budget_status(budgets, expenses, u, m)
          IN  /\ (s.status = "no_budget") <=> ~HasBudget(u, m)
              /\ s.status = "no_budget" =>
                    /\ s.limit = NullNum
                    /\ s.remaining = NullNum
                    /\ s.spent = SpentIn(u, m)
    /\ (last.op = "api_get_budget" /\ last.status = 200) =>
          /\ last.body = get_budget_status(budgets, expenses, sessions[last.client],
                                           last.body.month)
          /\ (last.body.status = "no_budget")
                <=> ~HasBudget(sessions[last.client], last.body.month)

\* C4 witness: GET /api/budget answers "no_budget" with a positive spent for
\* a month without a budget row, while the user has a budget for another month.
C4_Witness ==
    /\ last.op = "api_get_budget"
    /\ last.status = 200
    /\ last.body.status = "no_budget"
    /\ last.body.limit = NullNum
    /\ last.body.spent > 0
    /\ last.body.spent = SpentIn(sessions[last.client], last.body.month)
    /\ ~HasBudget(sessions[last.client], last.body.month)
    /\ \E m \in ApiMonthsSeen : HasBudget(sessions[last.client], m)

OwnedByOther(c, expense_id) ==
    /\ expense_id \in DOMAIN expenses
    /\ expenses[expense_id].user_id # sessions[c]

\* C1: in every interleaving of the requests of two users, a GET, PUT or
\* DELETE of /api/expenses/<id> whose storage read or write takes effect
\* while the expense is owned by another user is answered 404 and leaves the
\* store unchanged.
C1_NoCrossUserAccess ==
    [][\A c \in Conns :
          /\ \A i \in 1..MaxExpenseId :
                (api_get_expense(c, i) /\ OwnedByOther(c, i))
                => (last'.status = 404 /\ expenses' = expenses)
          /\ ((api_update_expense_end(c) \/ api_delete_expense_end(c))
                 /\ OwnedByOther(c, flight[c].id))
             => (last'.status = 404 /\ expenses' = expenses)]_vars

\* C10: in every reachable state, after default seeding and after any
\* interleaving of add_category calls, no two category rows have the same
\* user and the same name.
C10_UniquePerUser ==
    \A i, j \in DOMAIN categories :
        (categories[i].user_id = categories[j].user_id
            /\ categories[i].name = categories[j].name) => i = j

\* C10 witness: two users hold a category of the same name, one of them
\* seeded, right after a concurrent insert lost against the constraint.
C10_Witness ==
    /\ \E i, j \in DOMAIN categories :
          /\ categories[i].user_id # categories[j].user_id
          /\ categories[i].name = categories[j].name
    /\ seeded # {}
    /\ last.op = "add_category"
    /\ ~last.ok
    /\ last.error = "IntegrityError"

\* C11: delete_category(user, category_id) returns false and leaves the
\* category table unchanged when no category has that id or the category
\* belongs to another user; it returns true and removes exactly that row when
\* the category exists and is owned by the caller.
C11_DeleteCategoryOwnedOnly ==
    [][\A u \in DOMAIN users, i \in 1..NewId(categories) :
          CatDeleteById(u, i) =>
             IF i \in DOMAIN categories /\ categories[i].user_id = u
             THEN /\ last'.ok
                  /\ DOMAIN categories' = DOMAIN categories \ {i}
                  /\ \A j \in DOMAIN categories' : categories'[j] = categories[j]
             ELSE /\ ~last'.ok
                  /\ categories' = categories]_vars

\* C11 witness: a delete by id of another user's category was refused and the
\* row is still there, next to a row of the caller.
C11_Witness ==
    /\ last.op = "delete_category"
    /\ "id" \in DOMAIN last
    /\ ~last.ok
    /\ last.id \in DOMAIN categories
    /\ categories[last.id].user_id # last.user
    /\ RowsOf(categories, last.user) # {}

\* C12: in every interleaving of signup requests no two user rows share a
\* username, and a signup whose username is taken when it is written (the
\* loser of two concurrent signups included) is answered 400 "username already
\* exists", creates no user and establishes no session.
C12_DuplicateSignupRefused ==
    /\ [](\A i, j \in DOMAIN users : users[i].username = users[j].username => i = j)
    /\ [][\A c \in Conns :
            (api_signup_end(c)
                /\ \E i \in DOMAIN users : users[i].username = flight[c].user.username)
            => /\ last'.status = 400
               /\ last'.body = Err("username already exists")
               /\ users' = users
               /\ sessions' = sessions]_vars

NonPositive(x) == x.k = "num" /\ x.v <= 0

Refusal == [ok |-> FALSE, status |-> 400, body |-> Err("must be greater than 0")]

\* C13: in every state reachable through API requests every stored expense
\* has amount > 0 and every stored budget has limit_amount > 0; an add, an
\* update of an expense of the caller, or a set-budget for a valid month, sent
\* by a signed-in user with an amount (limit) <= 0, ends in the 400 answer
\* before the handler calls the storage.
C13_AmountsPositive ==
    /\ \A i \in DOMAIN expenses : expenses[i].amount > 0
    /\ \A b \in DOMAIN budgets : budgets[b].limit_amount > 0
    /\ \A c \in Clients :
          current_user(c).found =>
            /\ \A a \in ApiAmounts, cat \in ApiCategories, d \in ApiDates :
                  NonPositive(a)
                  => add_request(c, ExpenseBody(a, cat, d, Absent)) = Refusal
            /\ \A i \in DOMAIN expenses, a \in ApiNewAmounts,
                  cat \in ApiCategories, d \in ApiNewDates :
                  (NonPositive(a) /\ expenses[i].user_id = current_user(c).id)
                  => update_request(c, i, ExpenseBody(a, cat, d, Absent)) = Refusal
            /\ \A m \in ApiMonths, l \in ApiLimits :
                  (NonPositive(l) /\ IsYearMonth(strip(OrEmpty(Get(m)))))
                  => budget_request(c, [month |-> m, limit_amount |-> l]) = Refusal

\* C13 witness: an update with an amount <= 0 was refused while the store
\* holds an expense and a budget.
C13_Witness ==
    /\ last.op = "api_update_expense"
    /\ last.status = 400
    /\ last.body = Err("must be greater than 0")
    /\ expenses # EmptyTable
    /\ budgets # EmptyTable

UpdateFields == {"amount", "category", "date", "note"}

\* The value the body supplies for field f of an expense, or "none supplied".
Supplied(data, f) ==
    IF f = "amount"
    THEN IF data.amount.k = "absent" THEN [given |-> FALSE]
         ELSE [given |-> TRUE, val |-> data.amount.v]
    ELSE IF data[f] = Absent THEN [given |-> FALSE]
         ELSE [given |-> TRUE, val |-> data[f]]

FrameBodies ==
    {WithUserId(ExpenseBody(a, cat, d, n), x) :
        a \in ApiNewAmounts \cup {NumV(2)}, cat \in ApiCategories \cup {Gym},
        d \in ApiNewDates, n \in {Absent, <<"n">>}, x \in ApiExtras}

\* C14: a successful update of expense e sets exactly the fields supplied
\* among amount, category, date and note to the supplied values; id and user_id
\* of e, its fields that were not supplied and every other expense are
\* unchanged, and a user_id in the body has no effect.  The 200 answer of
\* PUT carries the row as stored.
C14_UpdateFrame ==
    /\ \A c \in Clients, i \in DOMAIN expenses, data \in FrameBodies :
          LET req == update_request(c, i, data)
              r == update_expense(expenses, i, req.allowed)
          IN  (req.ok /\ ~req.nan /\ r.ok /\ r.found) =>
                /\ DOMAIN r.table = DOMAIN expenses
                /\ \A j \in DOMAIN expenses \ {i} : r.table[j] = expenses[j]
                /\ r.table[i].user_id = expenses[i].user_id
                /\ r.result.id = i
                /\ \A f \in UpdateFields :
                      r.table[i][f] = IF Supplied(data, f).given
                                      THEN Supplied(data, f).val
                                      ELSE expenses[i][f]
    /\ (last.op = "api_update_expense" /\ last.status = 200
           /\ "id" \in DOMAIN last.body) =>
          /\ last.body.id \in DOMAIN expenses
          /\ last.body = [id |-> last.body.id] @@ expenses[last.body.id]
          /\ last.body.user_id = sessions[last.client]

\* C14 witness: a PUT changed the amount of one of two expenses of the caller
\* and the other one still has the amount it was added with.
C14_Witness ==
    /\ last.op = "api_update_expense"
    /\ last.status = 200
    /\ "id" \in DOMAIN last.body
    /\ last.body.date = D240105
    /\ last.body.amount = 1
    /\ last.body.id \in DOMAIN expenses
    /\ \E j \in DOMAIN expenses :
          /\ j # last.body.id
          /\ expenses[j].date = UtcToday
          /\ expenses[j].user_id = last.body.user_id

\* C15: an update or delete whose target id has no expense when the storage
\* write is applied (the id never existed, or the expense was removed by a
\* concurrent request after the ownership check) is answered 404, never with
\* a success and never with a storage failure, and the store is unchanged.
C15_MissingIdNotFound ==
    [][\A c \in Conns :
          /\ \A i \in 1..MaxExpenseId :
                (i \notin DOMAIN expenses
                    /\ (api_update_expense_begin(c, i, RaceUpdate)
                           \/ api_delete_expense_begin(c, i)))
                => (last'.status = 404 /\ expenses' = expenses)
          /\ ((api_update_expense_end(c) \/ api_delete_expense_end(c))
                 /\ flight[c].id \notin DOMAIN expenses)
             => (last'.status = 404 /\ expenses' = expenses)]_vars

Listed == {last.body[k].id : k \in 1..Len(last.body)}

CategoryMatches(i) ==
    Get(last.args.category) = NoneT \/ expenses[i].category = last.args.category

\* date_from <= d <= date_to for each bound that is given.
WithinBounds(d) ==
    /\ last.args.date_from # Absent =>
          (d # NoneT /\ ~TextLess(d, last.args.date_from))
    /\ last.args.date_to # Absent =>
          (d # NoneT /\ ~TextLess(last.args.date_to, d))

ListAnswered == last.op = "api_list_expenses" /\ last.status = 200

\* C16 as stated: the list contains exactly the caller's expenses whose
\* category equals the filter (when given) and whose date lies within every
\* bound that is given.
C16_ListExactlyInRange ==
    ListAnswered =>
       /\ Len(last.body) = Cardinality(Listed)
       /\ Listed = {i \in RowsOf(expenses, sessions[last.client]) :
                       CategoryMatches(i) /\ WithinBounds(expenses[i].date)}

\* C16 amended: the list contains exactly the caller's expenses whose
\* category equals the filter (when given) and that either have no date or
\* have a date within every bound that is given (both inclusive); every item
\* is the stored row.
C16_ListInRangeOrDateless ==
    ListAnswered =>
       /\ Len(last.body) = Cardinality(Listed)
       /\ Listed = {i \in RowsOf(expenses, sessions[last.client]) :
                       /\ CategoryMatches(i)
                       /\ expenses[i].date = NoneT \/ WithinBounds(expenses[i].date)}
       /\ \A k \in 1..Len(last.body) :
             last.body[k] = ExpenseDict(expenses, last.body[k].id)

\* C16 witness: a listing with a category filter and both bounds returned an
\* expense dated exactly on a bound, while the store holds an expense of the
\* other user.
C16_Witness ==
    /\ ListAnswered
    /\ last.args.category = Gym
    /\ last.args.date_from = D240105
    /\ last.args.date_to = D240105
    /\ Len(last.body) = 1
    /\ last.body[1].date = D240105
    /\ \E i \in DOMAIN expenses : expenses[i].user_id # sessions[last.client]

\* C17: for every ledger the store can hold, the listing of a signed-in user
\* succeeds and is ordered by date descending, equal dates by id descending.
C17_ListOrdered ==
    last.op = "api_list_expenses" =>
       /\ last.status = 200
       /\ \A k \in 1..(Len(last.body) - 1) :
             LET x == last.body[k]
                 y == last.body[k + 1]
             IN  IF x.date = y.date THEN x.id > y.id
                 ELSE /\ x.date # NoneT
                      /\ y.date = NoneT \/ TextLess(y.date, x.date)

\* C18: summary_by_category(user) returns a mapping whose keys are exactly
\* the distinct category values of the user's expenses and whose value for a
\* key is the sum of the amounts of the user's expenses with that category; a
\* user without expenses gets the empty mapping.
C18_SummaryExact ==
    last.op = "summary_by_category" =>
       /\ DOMAIN last.result = CategoriesOf(expenses, last.user)
       /\ \A cat \in DOMAIN last.result :
             last.result[cat] =
                SumAmount(expenses, {i \in RowsOf(expenses, last.user) :
                                        expenses[i].category = cat})

AddBodies ==
    {ExpenseBody(a, cat, d, n) :
        a \in ApiAmounts \cup {NumV(2)}, cat \in {Absent, NoneT, Gym, <<>>},
        d \in ApiDates \cup {NoneT, <<>>}, n \in {Absent, <<"n">>}}

IsCanonicalMonth(m) == Len(m) = 7 /\ IsYearMonth(m)

\* The month number a month text names.
MonthNumber(m) == IF Len(m) = 7 THEN Num2(m, 6) ELSE DigitVal(m[6])

\* What user u spent in the calendar month that the text m names.
SpentInMonthNamed(u, m) ==
    SumAmount(expenses, {i \in RowsOf(expenses, u) :
                            /\ expenses[i].date # NoneT
                            /\ Num4(expenses[i].date, 1) = Num4(m, 1)
                            /\ Num2(expenses[i].date, 6) = MonthNumber(m)})

\* C20: set-budget and get-budget accept a month only in the form YYYY-MM
\* with a month 01..12, so every stored budget has a month key of the form of
\* the keys of monthly_totals and is compared against the spend of the month
\* it names.
C20_MonthFormYYYYMM ==
    /\ \A b \in DOMAIN budgets :
          /\ IsCanonicalMonth(budgets[b].month)
          /\ get_budget_status(budgets, expenses, budgets[b].user_id,
                               budgets[b].month).spent
                = SpentInMonthNamed(budgets[b].user_id, budgets[b].month)
    /\ (last.op = "api_get_budget" /\ last.status = 200)
          => IsCanonicalMonth(last.body.month)
    /\ (last.op = "api_set_budget" /\ last.status = 200)
          => IsCanonicalMonth(last.body.budget.month)

-----------------------------------------------------------------------------
\* The add and update bodies whose accepted date is looked at.
DateBodies == {ExpenseBody(NumV(1), Absent, d, Absent) : d \in ApiDates}

\* C21: a supplied date that passes the validation of add or update is an
\* ISO calendar date, so the conversion of the storage layer accepts it: no
\* add or update that got past the validation fails in save_expense or
\* update_expense, and none is answered with the storage layer's ValueError.
C21_ValidatedDateIsCalendarDate ==
    /\ \A c \in Clients, data \in DateBodies :
          LET req == add_request(c, data)
          IN  (req.ok /\ Truthy(data.date)) =>
                 /\ IsIsoDate(data.date)
                 /\ save_expense(expenses, req.expense).ok
    /\ \A c \in Clients, i \in DOMAIN expenses, data \in DateBodies :
          LET req == update_request(c, i, data)
          IN  (req.ok /\ data.date # Absent) =>
                 /\ IsIsoDate(data.date)
                 /\ update_expense(expenses, i, req.allowed).ok
    /\ last.op \in {"api_add_expense", "api_update_expense"}
          => ~(last.status = 500 /\ last.body = Err("ValueError"))

-----------------------------------------------------------------------------
(* SpecSession: get_session (db.py) line by line, for units of work on the  *)
(* categories table run on three connections.  categories is the committed  *)
(* table; a session's own uncommitted rows live in its transaction copy tx  *)
(* (flight[c].tx) from its first INSERT, which takes SQLite's write lock,    *)
(* until its commit or rollback.  pysqlite opens the transaction at the      *)
(* first INSERT, so the SELECT of a body reads the committed table.          *)

Shopping == DEFAULT_CATEGORIES[3]
SessionNames == {Gym, Shopping}

\* The connections that run units of work: two of the same user.
SessionConns == {"a1", "a2"}

\* The INSERTs of a flush, one statement per row in the order of session.add:
\* the first row that violates uq_categories_user_name fails its statement
\* and raises IntegrityError; the rows inserted before it stay in the
\* transaction.
RECURSIVE flush(_, _, _)
flush(tx, u, names) ==
    IF names = <<>> THEN [ok |-> TRUE, table |-> tx]
    ELSE IF \E i \in RowsOf(tx, u) : tx[i].name = Head(names)
    THEN [ok |-> FALSE, error |-> "IntegrityError", table |-> tx]
    ELSE flush(Insert(tx, CategoryRow(u, Head(names))), u, Tail(names))

\* A plausible slip: the except clause publishes what the transaction holds
\* (a commit in place of the rollback).
rollback_keeps_flushed(cats, tx) == tx

\* session.rollback(): the transaction copy is dropped, the committed table
\* is what it was.
rollback(cats, tx) == cats

\* No other connection holds the write lock.
LockFree(c) ==
    \A o \in Conns \ {c} : IF flight[o].op = "session" THEN ~flight[o].holds ELSE TRUE

SessionOf(c, work) ==
    [op |-> "session", pc |-> "body", work |-> work, pending |-> <<>>,
     tx |-> EmptyTable, holds |-> FALSE, raised |-> "none", events |-> <<>>]

\* session = SessionLocal(); the with block is entered.
get_session_enter(c, work) ==
    /\ flight[c] = Idle
    /\ flight' = [flight EXCEPT ![c] = SessionOf(c, work)]
    /\ UNCHANGED <<users, expenses, budgets, categories, last, seeded, sessions>>

\* The body up to its INSERTs.  _ensure_default_categories: SELECT, return
\* when the user has rows, else session.add of the ten defaults (flushed by
\* the commit).  add_category: SELECT, return when the name exists, else
\* session.add of the row, then session.flush().
get_session_body(c) ==
    LET s == flight[c]
        u == sessions[c]
        names == IF s.work.kind = "seed" THEN DEFAULT_CATEGORIES ELSE <<s.work.name>>
        skip == IF s.work.kind = "seed" THEN RowsOf(categories, u) # {}
                ELSE \E i \in RowsOf(categories, u) : categories[i].name = s.work.name
    IN  /\ s.op = "session" /\ s.pc = "body"
        /\ flight' = [flight EXCEPT ![c] =
              IF skip THEN [s EXCEPT !.pc = "commit"]
              ELSE [s EXCEPT !.pending = names,
                             !.pc = IF s.work.kind = "seed" THEN "commit" ELSE "flush"]]
        /\ UNCHANGED <<users, expenses, budgets, categories, last, seeded, sessions>>

\* session.flush() in the body of add_category: the INSERT waits for the
\* write lock; a violation raises in the body.
get_session_flush(c) ==
    LET s == flight[c]
        r == flush(categories, sessions[c], s.pending)
    IN  /\ s.op = "session" /\ s.pc = "flush"
        /\ LockFree(c)
        /\ flight' = [flight EXCEPT ![c] =
              IF r.ok
              THEN [s EXCEPT !.tx = r.table, !.pending = <<>>, !.holds = TRUE,
                             !.pc = "commit"]
              ELSE [s EXCEPT !.tx = r.table, !.pending = <<>>, !.holds = TRUE,
                             !.raised = r.error, !.pc = "except"]]
        /\ UNCHANGED <<users, expenses, budgets, categories, last, seeded, sessions>>

\* The wait for the write lock runs into the busy timeout: OperationalError
\* (database is locked), raised in the flush of the body or of the commit.
get_session_locked(c) ==
    LET s == flight[c]
    IN  /\ s.op = "session" /\ s.pc \in {"flush", "commit"}
        /\ s.pending # <<>>
        /\ ~LockFree(c)
        /\ flight' = [flight EXCEPT ![c] =
              [s EXCEPT !.raised = "OperationalError", !.pc = "except"]]
        /\ UNCHANGED <<users, expenses, budgets, categories, last, seeded, sessions>>

\* session.commit() after the body finished normally: what is pending is
\* flushed, then the transaction is committed; a violation in that flush
\* raises out of commit().
get_session_commit(c) ==
    LET s == flight[c]
        base == IF s.holds THEN s.tx ELSE categories
        r == flush(base, sessions[c], s.pending)
    IN  /\ s.op = "session" /\ s.pc = "commit"
        /\ s.holds \/ s.pending = <<>> \/ LockFree(c)
        /\ IF r.ok
           THEN /\ categories' = r.table
                /\ flight' = [flight EXCEPT ![c] =
                      [s EXCEPT !.tx = EmptyTable, !.pending = <<>>, !.holds = FALSE,
                                !.events = Append(s.events, "commit"),
                                !.pc = "finally"]]
           ELSE /\ categories' = categories
                /\ flight' = [flight EXCEPT ![c] =
                      [s EXCEPT !.tx = r.table, !.pending = <<>>, !.holds = TRUE,
                                !.raised = r.error, !.pc = "except"]]
        /\ UNCHANGED <<users, expenses, budgets, last, seeded, sessions>>

\* except Exception: session.rollback(); raise
get_session_rollback(c) ==
    LET s == flight[c]
    IN  /\ s.op = "session" /\ s.pc = "except"
        /\ categories' = IF s.holds THEN rollback(categories, s.tx) ELSE categories
        /\ flight' = [flight EXCEPT ![c] =
              [s EXCEPT !.tx = EmptyTable, !.pending = <<>>, !.holds = FALSE,
                        !.events = Append(s.events, "rollback"), !.pc = "finally"]]
        /\ UNCHANGED <<users, expenses, budgets, last, seeded, sessions>>

\* finally: session.close(); the exception, if any, reaches the caller.
get_session_close(c) ==
    LET s == flight[c]
    IN  /\ s.op = "session" /\ s.pc = "finally"
        /\ last' = [op |-> "get_session", client |-> c, work |-> s.work,
                    events |-> Append(s.events, "close"), raised |-> s.raised]
        /\ flight' = [flight EXCEPT ![c] = Idle]
        /\ UNCHANGED <<users, expenses, budgets, categories, seeded, sessions>>

SessionWorks == {[kind |-> "seed"]} \cup {[kind |-> "add", name |-> n] : n \in SessionNames}

NextSession ==
    \/ \E c \in SessionConns, w \in SessionWorks : get_session_enter(c, w)
    \/ \E c \in SessionConns : get_session_body(c)
    \/ \E c \in SessionConns : get_session_flush(c)
    \/ \E c \in SessionConns : get_session_locked(c)
    \/ \E c \in SessionConns : get_session_commit(c)
    \/ \E c \in SessionConns : get_session_rollback(c)
    \/ \E c \in SessionConns : get_session_close(c)

SpecSession == InitRace /\ [][NextSession]_vars

\* The rows a step added to the committed categories table.
NewRows == DOMAIN categories' \ DOMAIN categories

\* C22: every unit of work of get_session ends either with commit and close,
\* when neither its body nor the commit raised, or with rollback and close
\* and the exception handed to the caller; a step of a unit that raised
\* changes nothing in the committed table, and the committed table changes
\* only by the commit of a unit, which adds all the rows of the unit at once
\* (the ten default categories of a seeding, the one row of an add).
C22_CommitXorRollback ==
    /\ [](last.op = "get_session" =>
            /\ last.events \in {<<"commit", "close">>, <<"rollback", "close">>}
            /\ (last.events[1] = "commit") <=> (last.raised = "none"))
    /\ [][\A c \in SessionConns :
            (/\ flight[c].op = "session"
             /\ flight'[c] # flight[c]
             /\ IF flight[c].raised # "none" THEN TRUE
                ELSE IF flight'[c] = Idle THEN FALSE
                ELSE flight'[c].pc = "except")
            => categories' = categories]_vars
    /\ [][categories' # categories =>
            \E c \in SessionConns :
               /\ flight[c].op = "session" /\ flight[c].pc = "commit"
               /\ flight'[c].pc = "finally" /\ flight'[c].raised = "none"
               /\ \A i \in DOMAIN categories : categories'[i] = categories[i]
               /\ Cardinality(NewRows) =
                     IF flight[c].work.kind = "seed" THEN Len(DEFAULT_CATEGORIES) ELSE 1
               /\ \A i \in NewRows : categories'[i].user_id = sessions[c]]_vars

\* A seeding whose commit raised after two of its ten INSERTs: it ended with
\* rollback, and the user holds only the row that another unit committed.
C22_Witness ==
    /\ last.op = "get_session"
    /\ last.work.kind = "seed"
    /\ last.raised = "IntegrityError"
    /\ last.events = <<"rollback", "close">>
    /\ Cardinality(RowsOf(categories, 1)) = 1
    /\ \E i \in RowsOf(categories, 1) : categories[i].name = Shopping

-----------------------------------------------------------------------------
(* SpecUpsertRace: upsert_budget and add_category called concurrently on    *)
(* three connections.  The SELECT of a call and its INSERT or UPDATE        *)
(* (session.flush) are two steps; the INSERT is subject to                  *)
(* uq_budgets_user_month or uq_categories_user_name, and a violation raises *)
(* IntegrityError out of the call after get_session rolled back.            *)

\* A plausible slip: the budgets table has no unique constraint.
budget_insert_unchecked(buds, u, m, l) ==
    [ok |-> TRUE, table |-> Insert(buds, BudgetRow(u, m, l)),
     result |-> [id |-> NewId(buds)] @@ BudgetRow(u, m, l)]

\* INSERT of a budget row under UniqueConstraint("user_id", "month").
budget_insert_unique(buds, u, m, l) ==
    IF \E i \in DOMAIN buds : buds[i].user_id = u /\ buds[i].month = m
    THEN [ok |-> FALSE, error |-> "IntegrityError", table |-> buds]
    ELSE [ok |-> TRUE, table |-> Insert(buds, BudgetRow(u, m, l)),
          result |-> [id |-> NewId(buds)] @@ BudgetRow(u, m, l)]

UpsertMonths == {M2401}
UpsertLimits == {1, 2}
UpsertNames  == {Gym}

\* upsert_budget up to its SELECT: the row to update, or none.
upsert_budget_begin(c, m, l) ==
    LET u == sessions[c]
        hit == {i \in DOMAIN budgets : budgets[i].user_id = u /\ budgets[i].month = m}
    IN  /\ flight[c] = Idle
        /\ flight' = [flight EXCEPT ![c] =
              IF hit # {}
              THEN [op |-> "upsert_update", id |-> CHOOSE i \in hit : TRUE,
                    month |-> m, limit |-> l]
              ELSE [op |-> "upsert_insert", month |-> m, limit |-> l]]
        /\ UNCHANGED <<users, expenses, budgets, categories, last, seeded, sessions>>

\* The flush of upsert_budget (UPDATE of the row found, or INSERT) and the
\* commit.
upsert_budget_end(c) ==
    LET u == sessions[c]
        f == flight[c]
    IN  /\ f.op \in {"upsert_update", "upsert_insert"}
        /\ IF f.op = "upsert_update"
           THEN /\ budgets' = [budgets EXCEPT ![f.id].limit_amount = f.limit]
                /\ last' = [op |-> "upsert_budget", client |-> c, ok |-> TRUE,
                            month |-> f.month, inserted |-> FALSE,
                            result |-> [id |-> f.id] @@ BudgetRow(u, f.month, f.limit)]
           ELSE LET r == budget_insert_unique(budgets, u, f.month, f.limit)
                IN  /\ budgets' = r.table
                    /\ last' = IF r.ok
                               THEN [op |-> "upsert_budget", client |-> c, ok |-> TRUE,
                                     month |-> f.month, inserted |-> TRUE,
                                     result |-> r.result]
                               ELSE [op |-> "upsert_budget", client |-> c, ok |-> FALSE,
                                     month |-> f.month, error |-> r.error]
        /\ flight' = [flight EXCEPT ![c] = Idle]
        /\ UNCHANGED <<users, expenses, categories, seeded, sessions>>

NextUpsertRace ==
    \/ \E c \in Conns, m \in UpsertMonths, l \in UpsertLimits : upsert_budget_begin(c, m, l)
    \/ \E c \in Conns : upsert_budget_end(c)
    \/ \E c \in Conns, n \in UpsertNames : add_category_begin(c, n)
    \/ \E c \in Conns : add_category_end(c)

SpecUpsertRace == InitRace /\ [][NextUpsertRace]_vars

CategoryIds(cats, u, n) == {i \in RowsOf(cats, u) : cats[i].name = n}

\* C23: when two upsert_budget calls for one (user, month), or two
\* add_category calls for one (user, name), both passed their existence check
\* with no row found, the first INSERT stores the one row and the call whose
\* INSERT comes second ends with IntegrityError, a failure of its own kind,
\* and changes no table; no (user, month) and no (user, name) ever has two
\* rows, and such a call never ends with a success result.
C23_RaceLoserConstraintViolation ==
    /\ [](\A u \in DOMAIN users :
             /\ \A m \in UpsertMonths : Cardinality(BudgetIds(budgets, u, m)) <= 1
             /\ \A n \in UpsertNames : Cardinality(CategoryIds(categories, u, n)) <= 1)
    /\ [][\A c \in Conns :
            (flight[c].op = "upsert_insert" /\ flight'[c] = Idle) =>
               IF BudgetIds(budgets, sessions[c], flight[c].month) # {}
               THEN /\ last' = [op |-> "upsert_budget", client |-> c, ok |-> FALSE,
                                month |-> flight[c].month, error |-> "IntegrityError"]
                    /\ budgets' = budgets /\ categories' = categories
               ELSE /\ last'.ok /\ last'.client = c
                    /\ BudgetIds(budgets', sessions[c], flight[c].month)
                          = {last'.result.id}
                    /\ budgets'[last'.result.id].limit_amount = flight[c].limit]_vars
    /\ [][\A c \in Conns :
            (flight[c].op = "add" /\ flight'[c] = Idle) =>
               IF CategoryIds(categories, sessions[c], flight[c].name) # {}
               THEN /\ last' = [op |-> "add_category", client |-> c, ok |-> FALSE,
                                error |-> "IntegrityError"]
                    /\ budgets' = budgets /\ categories' = categories
               ELSE /\ last'.ok /\ last'.client = c
                    /\ CategoryIds(categories', sessions[c], flight[c].name)
                          = {last'.result.id}]_vars

\* Two connections of one user both found no budget for the month; the call
\* that has just ended lost: IntegrityError, and the winner's row alone is
\* stored with the winner's limit.
C23_Witness ==
    /\ last.op = "upsert_budget"
    /\ ~last.ok
    /\ last.error = "IntegrityError"
    /\ \E i \in DOMAIN budgets :
          /\ BudgetIds(budgets, sessions[last.client], last.month) = {i}
          /\ budgets[i].limit_amount = 1
    /\ \E u \in DOMAIN users, n \in UpsertNames : CategoryIds(categories, u, n) # {}

-----------------------------------------------------------------------------
(* The statistics and category endpoints.                                   *)

\* GET /api/summary; rows is the order in which the GROUP BY returned.
api_summary(c, rows) ==
    LET user == current_user(c)
    IN  /\ IF ~user.found
           THEN Reply("api_summary", c, 401, Err("authentication required"))
           ELSE Reply("api_summary", c, 200,
                      summary_by_category(expenses, user.id, rows))
        /\ UNCHANGED <<users, expenses, budgets, categories, flight, seeded, sessions>>

\* GET /api/monthly (the sorting of the keys does not show in a JSON object).
api_monthly(c) ==
    LET user == current_user(c)
    IN  /\ IF ~user.found
           THEN Reply("api_monthly", c, 401, Err("authentication required"))
           ELSE Reply("api_monthly", c, 200, monthly_totals(expenses, user.id))
        /\ UNCHANGED <<users, expenses, budgets, categories, flight, seeded, sessions>>

\* GET /api/categories
api_list_categories(c) ==
    LET user == current_user(c)
    IN  IF ~user.found
        THEN Unauthorized("api_list_categories", c)
        ELSE LET r == list_categories(categories, user.id)
             IN  /\ categories' = r.table
                 /\ seeded' = IF r.table # categories THEN seeded \cup {user.id}
                              ELSE seeded
                 /\ Reply("api_list_categories", c, 200, r.result)
                 /\ UNCHANGED <<users, expenses, budgets, flight, sessions>>

\* POST /api/categories
api_add_category(c, data) ==
    LET user == current_user(c)
        name == strip(OrEmpty(Get(data.name)))
    IN  IF ~user.found
        THEN Unauthorized("api_add_category", c)
        ELSE IF ~Truthy(name)
        THEN /\ Reply("api_add_category", c, 400, Err("name required"))
             /\ UNCHANGED <<users, expenses, budgets, categories, flight, seeded,
                            sessions>>
        ELSE LET r == add_category(categories, user.id, name)
             IN  /\ categories' = r.table
                 /\ IF r.ok THEN Reply("api_add_category", c, 201, r.result)
                    ELSE Reply("api_add_category", c, 400, Err(r.error))
                 /\ UNCHANGED <<users, expenses, budgets, flight, seeded, sessions>>

\* DELETE /api/categories/<id>
api_delete_category(c, category_id) ==
    LET user == current_user(c)
    IN  IF ~user.found
        THEN Unauthorized("api_delete_category", c)
        ELSE LET r == delete_category(categories, user.id, category_id)
             IN  /\ categories' = r.table
                 /\ IF r.ok
                    THEN Reply("api_delete_category", c, 200, [deleted |-> category_id])
                    ELSE Reply("api_delete_category", c, 404, Err("not found"))
                 /\ UNCHANGED <<users, expenses, budgets, flight, seeded, sessions>>

-----------------------------------------------------------------------------
(* SpecTwoUsers: alice and bob, each signed in on a client of their own,    *)
(* send requests to every data endpoint, one request after another.         *)

TwoClients == {"ca", "cb"}
TwoSessions == [c \in TwoClients |-> IF c = "ca" THEN 1 ELSE 2]

\* The highest category id a delete request names.
MaxDeleteId == 1

TwoAdds == {ExpenseBody(NumV(1), Gym, Absent, Absent)}
TwoUpdates == {ExpenseBody(AbsentV, Absent, D240105, Absent)}
TwoLimits == {NumV(1)}

InitTwoUsers ==
    /\ users = TwoUsers
    /\ expenses = EmptyTable
    /\ budgets = EmptyTable
    /\ categories = EmptyTable
    /\ flight = EmptyTable
    /\ last = NoCall
    /\ seeded = {}
    /\ sessions = TwoSessions

\* Requests to the ledger and budget endpoints.
NextTwoLedgers ==
    \/ \E c \in TwoClients, data \in TwoAdds :
          /\ NewId(expenses) <= MaxExpenseId
          /\ api_add_expense(c, data)
    \/ \E c \in TwoClients, i \in 1..MaxExpenseId, data \in TwoUpdates :
          api_update_expense(c, i, data)
    \/ \E c \in TwoClients, i \in 1..MaxExpenseId : api_delete_expense(c, i)
    \/ \E c \in TwoClients : api_list_expenses(c, Absent, Absent, Absent)
    \/ \E c \in TwoClients :
          \E rows \in RowOrders(CategoriesOf(expenses, sessions[c])) : api_summary(c, rows)
    \/ \E c \in TwoClients : api_monthly(c)
    \/ \E c \in TwoClients : api_get_budget(c, M2401)
    \/ \E c \in TwoClients, l \in TwoLimits :
          api_set_budget(c, [month |-> M2401, limit_amount |-> l])

\* Requests to the category endpoints.
NextTwoRegistries ==
    \/ \E c \in TwoClients : api_list_categories(c)
    \/ \E c \in TwoClients : api_add_category(c, [name |-> Gym])
    \/ \E c \in TwoClients, i \in 1..MaxDeleteId : api_delete_category(c, i)

\* The category handlers touch the categories table alone and the other
\* handlers never touch it (SpecRegistry), so the two families are explored
\* apart: a run sends requests of one family only.
NextTwoUsers ==
    \/ categories = EmptyTable /\ NextTwoLedgers
    \/ expenses = EmptyTable /\ budgets = EmptyTable /\ NextTwoRegistries

SpecTwoUsers == InitTwoUsers /\ [][NextTwoUsers]_vars

\* The rows of table t that user u owns, under their ids: what the store
\* would hold had no other user ever sent a request, up to the id values.
Restrict(t, u) == [i \in RowsOf(t, u) |-> t[i]]

\* The rows of user u in table t in the order of their ids, without the ids.
RECURSIVE Canon(_, _)
Canon(t, u) ==
    IF RowsOf(t, u) = {} THEN <<>>
    ELSE LET i == CHOOSE j \in RowsOf(t, u) : \A k \in RowsOf(t, u) : j <= k
         IN  <<t[i]>> \o Canon([k \in DOMAIN t \ {i} |-> t[k]], u)

\* The names of a category listing, in its order.
NamesListed(listing) == [k \in DOMAIN listing |-> listing[k].name]

\* What the last answer, a result returned to a user, would have been had the
\* store held that user's rows alone.
ResultFromOwnRows ==
    LET u == IF last = NoCall THEN 0 ELSE sessions[last.client]
        E == Restrict(expenses, u)
        B == Restrict(budgets, u)
        K == Restrict(categories, u)
    IN  IF last = NoCall THEN TRUE
        ELSE IF last.status # 200 THEN TRUE
        ELSE IF last.op = "api_list_expenses"
        THEN last.body = sort_by_date_id(get_user_expenses(E, u)).result
        ELSE IF last.op = "api_summary"
        THEN \E rows \in RowOrders(CategoriesOf(E, u)) :
                last.body = summary_by_category(E, u, rows)
        ELSE IF last.op = "api_monthly"
        THEN last.body = monthly_totals(E, u)
        ELSE IF last.op = "api_get_budget"
        THEN last.body = get_budget_status(B, E, u, last.body.month)
        ELSE IF last.op = "api_set_budget"
        THEN last.body.status = get_budget_status(B, E, u, last.body.status.month)
        ELSE IF last.op = "api_list_categories"
        THEN last.body = list_categories(K, u).result
        ELSE TRUE

\* A write of user u does to u's rows what it would do to them in a store
\* holding u's rows alone; only the id of a row it creates may differ.  An
\* id that is not u's own is answered as an id nobody has.
WritesFromOwnRows ==
    \A c \in TwoClients :
       LET u == sessions[c]
           E == Restrict(expenses, u)
           B == Restrict(budgets, u)
           K == Restrict(categories, u)
       IN  /\ \A data \in TwoAdds :
                LET e == add_request(c, data).expense
                IN  Canon(save_expense(expenses, e).table, u)
                       = Canon(save_expense(E, e).table, u)
           /\ \A i \in 1..MaxExpenseId, data \in TwoUpdates :
                IF i \in DOMAIN E
                THEN /\ Restrict(update_expense(expenses, i,
                                    update_request(c, i, data).allowed).table, u)
                           = update_expense(E, i, update_request(c, i, data).allowed).table
                     /\ Restrict(delete_expense(expenses, i).table, u)
                           = delete_expense(E, i).table
                ELSE /\ update_request(c, i, data).status = 404
                     /\ delete_request(c, i).status = 404
           /\ \A l \in UpsertLimits :
                Canon(upsert_budget(budgets, u, M2401, l).table, u)
                   = Canon(upsert_budget(B, u, M2401, l).table, u)
           /\ Canon(add_category(categories, u, Gym).table, u)
                 = Canon(add_category(K, u, Gym).table, u)
           /\ Canon(list_categories(categories, u).table, u)
                 = Canon(list_categories(K, u).table, u)
           /\ NamesListed(list_categories(categories, u).result)
                 = NamesListed(list_categories(K, u).result)
           /\ \A i \in 1..MaxDeleteId :
                IF i \in DOMAIN K
                THEN Restrict(delete_category(categories, u, i).table, u)
                        = delete_category(K, u, i).table
                ELSE ~delete_category(categories, u, i).ok

-----------------------------------------------------------------------------
(* SpecRegistry: one signed-in user sends requests to the expense and the   *)
(* category endpoints in any order; the expenses carry the name of a        *)
(* default category or of a category the user adds, or neither.             *)

FoodDining == DEFAULT_CATEGORIES[1]
RegistryCategories == {Gym, FoodDining}

RegistryAdds == {ExpenseBody(NumV(1), cat, Absent, Absent) : cat \in RegistryCategories}
RegistryUpdates ==
    {ExpenseBody(AbsentV, cat, Absent, Absent) : cat \in RegistryCategories}

InitRegistry ==
    /\ users = (1 :> UserRow(Alice, PwHash("pw")))
    /\ expenses = EmptyTable
    /\ budgets = EmptyTable
    /\ categories = EmptyTable
    /\ flight = EmptyTable
    /\ last = NoCall
    /\ seeded = {}
    /\ sessions = [c \in Clients |-> 1]

NextRegistry ==
    \/ \E c \in Clients, data \in RegistryAdds :
          /\ NewId(expenses) <= MaxExpenseId
          /\ api_add_expense(c, data)
    \/ \E c \in Clients, i \in 1..MaxExpenseId, data \in RegistryUpdates :
          api_update_expense(c, i, data)
    \/ \E c \in Clients :
          \E rows \in RowOrders(CategoriesOf(expenses, sessions[c])) : api_summary(c, rows)
    \/ \E c \in Clients : api_list_categories(c)
    \/ \E c \in Clients : api_add_category(c, [name |-> Gym])
    \/ \E c \in Clients, i \in 1..MaxDeleteId : api_delete_category(c, i)

SpecRegistry == InitRegistry /\ [][NextRegistry]_vars

CategoryOps == {"api_list_categories", "api_add_category", "api_delete_category"}

Registered(u, cat) == \E i \in RowsOf(categories, u) : categories[i].name = cat

\* C25: a request to a category endpoint (listing with its seeding, add,
\* delete) changes no expense, hence no summary_by_category result, also
\* when it deletes the category whose name expenses carry; an add or an
\* update of an own expense with a category that is not in the user's
\* registry is answered 201 or 200, stores that category and leaves the
\* registry as it was.
C25_RegistryLedgerDecoupled ==
    /\ [][(last' # NoCall /\ last'.op \in CategoryOps) =>
             /\ expenses' = expenses
             /\ \A u \in DOMAIN users :
                   \A rows \in RowOrders(CategoriesOf(expenses, u)) :
                      summary_by_category(expenses', u, rows)
                         = summary_by_category(expenses, u, rows)]_vars
    /\ [][\A c \in Clients, data \in RegistryAdds :
             (api_add_expense(c, data) /\ ~Registered(sessions[c], data.category)) =>
                /\ last'.status = 201
                /\ expenses'[last'.body.id].category = data.category
                /\ categories' = categories]_vars
    /\ [][\A c \in Clients, i \in DOMAIN expenses, data \in RegistryUpdates :
             (api_update_expense(c, i, data) /\ ~Registered(sessions[c], data.category)) =>
                /\ last'.status = 200
                /\ expenses'[i].category = data.category
                /\ categories' = categories]_vars

\* The category with id 1 has just been deleted, no category of that name is
\* left, and an expense that carries the name is still stored.
C25_Witness ==
    /\ last.op = "api_delete_category"
    /\ last.status = 200
    /\ \E i \in DOMAIN expenses :
          /\ expenses[i].category \in RegistryCategories
          /\ ~Registered(expenses[i].user_id, expenses[i].category)
    /\ categories # EmptyTable

-----------------------------------------------------------------------------
(* SpecAuth: two clients and every endpoint.  Client ca starts with no      *)
(* session and signs up, in and out; client cb carries the session of a     *)
(* user id whose row is gone.  alice is registered.                         *)

StaleId == 2
AuthNames == {Alice, Bob}
AuthPasswords == {"pw", "no"}

InitAuth ==
    /\ users = (1 :> UserRow(Alice, PwHash("pw")))
    /\ expenses = EmptyTable
    /\ budgets = EmptyTable
    /\ categories = EmptyTable
    /\ flight = EmptyTable
    /\ last = NoCall
    /\ seeded = {}
    /\ sessions = [c \in TwoClients |-> IF c = "ca" THEN 0 ELSE StaleId]

NextAuth ==
    \/ \E n \in AuthNames : api_signup("ca", n, "pw")
    \/ \E n \in AuthNames, p \in AuthPasswords : api_signin("ca", n, p)
    \/ api_signout("ca")
    \/ \E c \in TwoClients, i \in 1..MaxExpenseId :
          categories = EmptyTable /\ api_get_expense(c, i)
    \/ NextTwoUsers

SpecAuth == InitAuth /\ [][NextAuth]_vars

DataOps ==
    {"api_add_expense", "api_list_expenses", "api_get_expense", "api_update_expense",
     "api_delete_expense", "api_summary", "api_monthly", "api_get_budget",
     "api_set_budget", "api_list_categories", "api_add_category",
     "api_delete_category"}

\* The session of client c holds no user id, or one that no user row has.
Unauthenticated(c) == sessions[c] = 0 \/ sessions[c] \notin DOMAIN users

\* C26: a request to an expense, summary, monthly, budget or category
\* endpoint from a client whose session holds no user id, or a user id with
\* no user row, is answered 401 with the authentication error alone and
\* leaves every table as it was; signout clears the session, and a session
\* comes to hold a user id only by a signup answered 201 or a signin answered
\* 200 on that client, so after a signout every such request is answered 401
\* until then.
C26_UnauthenticatedRefused ==
    /\ [][\A c \in TwoClients :
            (/\ Unauthenticated(c)
             /\ last' # NoCall /\ last'.op \in DataOps /\ last'.client = c)
            => /\ last'.status = 401
               /\ last'.body = Err("authentication required")
               /\ UNCHANGED <<users, expenses, budgets, categories, sessions>>]_vars
    /\ [](\A c \in TwoClients :
            (last # NoCall /\ last.op = "api_signout" /\ last.client = c)
            => (sessions[c] = 0 /\ Unauthenticated(c)))
    /\ [][\A c \in TwoClients :
            (sessions'[c] # sessions[c] /\ sessions'[c] # 0) =>
               /\ last'.client = c
               /\ \/ last'.op = "api_signup" /\ last'.status = 201
                  \/ last'.op = "api_signin" /\ last'.status = 200
               /\ sessions'[c] \in DOMAIN users']_vars

\* A client that had signed in, stored an expense and signed out asked for
\* the expense list and was answered 401; the other client's stale session
\* still resolves to no user.
C26_Witness ==
    /\ last.op = "api_list_expenses"
    /\ last.client = "ca"
    /\ last.status = 401
    /\ RowsOf(expenses, 1) # {}
    /\ sessions["ca"] = 0
    /\ Unauthenticated("cb")

-----------------------------------------------------------------------------
(* SpecValidation: one signed-in user sends well-formed and malformed       *)
(* requests to every endpoint that validates its input.                     *)

ValidationAdds ==
    {ExpenseBody(a, Absent, d, Absent) :
        a \in {AbsentV, TextV, NumV(0), NumV(-1), NumV(1)}, d \in {Absent, BadDate}}

\* Updates that carry one valid field together with one invalid field.
MixedUpdates ==
    {ExpenseBody(NumV(2), Absent, BadDate, Absent),
     ExpenseBody(TextV, Absent, D240105, Absent),
     ExpenseBody(NumV(0), Gym, Absent, Absent),
     ExpenseBody(AbsentV, Gym, BadDate, Absent)}

ValidationUpdates ==
    MixedUpdates \cup {ExpenseBody(AbsentV, Absent, Absent, Absent),
                       ExpenseBody(NumV(2), Absent, Absent, Absent)}

ValidationMonths == {M2401, BadMonth}
ValidationLimits == {AbsentV, TextV, NumV(0), NumV(-1), NumV(1)}
ValidationNames == {Absent, <<>>, <<" ">>, Gym}

NextValidation ==
    \/ \E c \in Clients, data \in ValidationAdds :
          /\ NewId(expenses) <= MaxExpenseId
          /\ api_add_expense(c, data)
    \/ \E c \in Clients, i \in 1..MaxExpenseId, data \in ValidationUpdates :
          api_update_expense(c, i, data)
    \/ \E c \in Clients, m \in ValidationMonths : api_get_budget(c, m)
    \/ \E c \in Clients, m \in ValidationMonths, l \in ValidationLimits :
          api_set_budget(c, [month |-> m, limit_amount |-> l])
    \/ \E c \in Clients, n \in ValidationNames : api_add_category(c, [name |-> n])

SpecValidation == InitRegistry /\ [][NextValidation]_vars

\* C27: a request answered 400 leaves users, expenses, budgets, categories
\* and the sessions exactly as they were; an update of an own expense that
\* carries one valid field and one invalid field is answered 400 and changes
\* no field of the expense.
C27_RejectionChangesNothing ==
    /\ [][(last' # NoCall /\ last'.status = 400) =>
             UNCHANGED <<users, expenses, budgets, categories, seeded, sessions>>]_vars
    /\ [][\A c \in Clients, i \in DOMAIN expenses, data \in MixedUpdates :
             api_update_expense(c, i, data) =>
                /\ last'.status = 400
                /\ expenses' = expenses]_vars

\* An update was refused for its date (the only such updates carry a valid
\* amount of 2 or a valid category) while two expenses, one of them updated
\* to 2 before, a budget and a category are stored.
C27_Witness ==
    /\ last.op = "api_update_expense"
    /\ last.status = 400
    /\ last.body = Err("invalid date")
    /\ \E i, j \in DOMAIN expenses : expenses[i].amount = 1 /\ expenses[j].amount = 2
    /\ budgets # EmptyTable
    /\ categories # EmptyTable

-----------------------------------------------------------------------------
(* SpecSnapshot: budget reads and writes of one user on two connections.    *)
(* get_budget_status makes two storage calls, get_budget and                *)
(* monthly_totals, each in a transaction of its own, and api_set_budget     *)
(* makes three (upsert_budget, then the two of get_budget_status), so other *)
(* requests commit in between.  flight holds, per connection, what the      *)
(* request has read so far and, as a record of the history, the             *)
(* (limit, spent) pairs of every committed state since the request began.   *)

SnapshotConns == {"a1", "a2"}
SnapshotMonth == M2401

\* The (limit, spent) pair of user u and month m in one state of the store.
PairOf(buds, exps, u, m) ==
    LET s == get_budget_status(buds, exps, u, m) IN <<s.limit, s.spent>>

\* Every request in flight sees a newly committed state go by.
Observe(f, buds, exps) ==
    [c \in DOMAIN f |->
        IF f[c] = Idle THEN f[c]
        ELSE [f[c] EXCEPT !.seen = @ \cup {PairOf(buds, exps, f[c].user_id, f[c].month)}]]

\* GET /api/budget up to the return of get_budget.
api_get_budget_begin(c, month_arg) ==
    LET user == current_user(c)
        month == IF Truthy(Get(month_arg)) THEN month_arg ELSE SubSeq(UtcToday, 1, 7)
    IN  /\ flight[c] = Idle
        /\ IF ~user.found
           THEN /\ Reply("api_get_budget", c, 401, Err("authentication required"))
                /\ UNCHANGED flight
           ELSE IF ~IsYearMonth(month)
           THEN /\ Reply("api_get_budget", c, 400, Err("invalid month"))
                /\ UNCHANGED flight
           ELSE /\ flight' = [flight EXCEPT ![c] =
                                 [op |-> "status", user_id |-> user.id, month |-> month,
                                  buds |-> budgets,
                                  seen |-> {PairOf(budgets, expenses, user.id, month)}]]
                /\ UNCHANGED last
        /\ UNCHANGED <<users, expenses, budgets, categories, seeded, sessions>>

\* The rest of get_budget_status: monthly_totals, then the status computed
\* from the budget row read before and the totals read now.
api_get_budget_end(c) ==
    /\ flight[c] # Idle
    /\ flight[c].op = "status"
    /\ Reply("api_get_budget", c, 200,
             get_budget_status(flight[c].buds, expenses, flight[c].user_id,
                               flight[c].month))
    /\ flight' = [flight EXCEPT ![c] = Idle]
    /\ UNCHANGED <<users, expenses, budgets, categories, seeded, sessions>>

\* POST /api/budget up to the return of upsert_budget.
api_set_budget_begin(c, data) ==
    LET req == budget_request(c, data)
    IN  /\ flight[c] = Idle
        /\ IF ~req.ok
           THEN /\ Reply("api_set_budget", c, req.status, req.body)
                /\ UNCHANGED <<budgets, flight>>
           ELSE IF req.nan
           THEN /\ Reply("api_set_budget", c, 500, Err("IntegrityError"))
                /\ UNCHANGED <<budgets, flight>>
           ELSE LET r == upsert_budget(budgets, req.user_id, req.month, req.limit_val)
                    mine == [op |-> "set", user_id |-> req.user_id, month |-> req.month,
                             saved |-> r.result, read |-> FALSE, buds |-> r.table,
                             seen |-> {}]
                IN  /\ budgets' = r.table
                    /\ flight' = Observe([flight EXCEPT ![c] = mine], r.table, expenses)
                    /\ UNCHANGED last
        /\ UNCHANGED <<users, expenses, categories, seeded, sessions>>

\* get_budget, the first call of get_budget_status in api_set_budget.
api_set_budget_read(c) ==
    /\ flight[c] # Idle
    /\ flight[c].op = "set"
    /\ ~flight[c].read
    /\ flight' = [flight EXCEPT ![c].read = TRUE, ![c].buds = budgets,
                                ![c].seen = {PairOf(budgets, expenses, flight[c].user_id,
                                                    flight[c].month)}]
    /\ UNCHANGED <<users, expenses, budgets, categories, last, seeded, sessions>>

\* monthly_totals, the status, and the answer of api_set_budget.
api_set_budget_end(c) ==
    /\ flight[c] # Idle
    /\ flight[c].op = "set"
    /\ flight[c].read
    /\ Reply("api_set_budget", c, 200,
             [budget |-> flight[c].saved,
              status |-> get_budget_status(flight[c].buds, expenses, flight[c].user_id,
                                           flight[c].month)])
    /\ flight' = [flight EXCEPT ![c] = Idle]
    /\ UNCHANGED <<users, expenses, budgets, categories, seeded, sessions>>

\* POST /api/expenses on another connection; it makes one storage call.
concurrent_add_expense(c, data) ==
    LET req == add_request(c, data)
        r == save_expense(expenses, req.expense)
    IN  /\ flight[c] = Idle
        /\ req.ok /\ ~req.nan /\ r.ok
        /\ expenses' = r.table
        /\ Reply("api_add_expense", c, 201, r.result)
        /\ flight' = Observe(flight, budgets, r.table)
        /\ UNCHANGED <<users, budgets, categories, seeded, sessions>>

InitSnapshot ==
    /\ users = TwoUsers
    /\ expenses = EmptyTable
    /\ budgets = EmptyTable
    /\ categories = EmptyTable
    /\ flight = [c \in SnapshotConns |-> Idle]
    /\ last = NoCall
    /\ seeded = {}
    /\ sessions = [c \in SnapshotConns |-> 1]

NextSnapshot ==
    \/ \E c \in SnapshotConns : api_get_budget_begin(c, SnapshotMonth)
    \/ \E c \in SnapshotConns : api_get_budget_end(c)
    \/ \E c \in SnapshotConns, l \in UpsertLimits :
          api_set_budget_begin(c, [month |-> SnapshotMonth, limit_amount |-> NumV(l)])
    \/ \E c \in SnapshotConns : api_set_budget_read(c)
    \/ \E c \in SnapshotConns : api_set_budget_end(c)
    \/ \E c \in SnapshotConns :
          /\ NewId(expenses) <= MaxExpenseId
          /\ concurrent_add_expense(c, RaceBody)

SpecSnapshot == InitSnapshot /\ [][NextSnapshot]_vars

\* C28: the (limit, spent) pair in the answer of a budget-status read is the
\* pair of one committed state of the store between the read's first query
\* and its answer, and the status in the answer of a set-budget request
\* carries the limit that the request saved.
C28_StatusFromOneSnapshot ==
    /\ [][\A c \in SnapshotConns :
            (api_get_budget_end(c) \/ api_set_budget_end(c)) =>
               LET s == IF last'.op = "api_get_budget" THEN last'.body
                        ELSE last'.body.status
               IN  <<s.limit, s.spent>> \in flight[c].seen]_vars
    /\ [](last # NoCall /\ last.op = "api_set_budget" /\ last.status = 200
            => last.body.status.limit = Num(last.body.budget.limit_amount))

\* The pair of a budget-status read alone.
C28_ReadPairExisted ==
    [][\A c \in SnapshotConns :
          api_get_budget_end(c) => <<last'.body.limit, last'.body.spent>> \in flight[c].seen]_vars

\* The limit in the answer of a set-budget request alone.
C28_SetBudgetOwnLimit ==
    [](last # NoCall /\ last.op = "api_set_budget" /\ last.status = 200
          => last.body.status.limit = Num(last.body.budget.limit_amount))

-----------------------------------------------------------------------------
(* SpecLedger: alice and bob add expenses dated in January, raise their     *)
(* amounts, move them into February, delete them, and read the budget       *)
(* status of both months, in every order.                                   *)

LedgerAdds == {ExpenseBody(NumV(1), Absent, D240105, Absent)}
LedgerUpdates ==
    {ExpenseBody(NumV(2), Absent, Absent, Absent),
     ExpenseBody(AbsentV, Absent, D240203, Absent)}
LedgerMonths == {M2401, M2402}

NextLedger ==
    \/ \E c \in TwoClients, data \in LedgerAdds :
          /\ NewId(expenses) <= MaxExpenseId
          /\ api_add_expense(c, data)
    \/ \E c \in TwoClients, i \in 1..MaxExpenseId, data \in LedgerUpdates :
          api_update_expense(c, i, data)
    \/ \E c \in TwoClients, i \in 1..MaxExpenseId : api_delete_expense(c, i)
    \/ \E c \in TwoClients, m \in LedgerMonths : api_get_budget(c, m)

SpecLedger == InitTwoUsers /\ [][NextLedger]_vars

\* C29: in every state reached by add, update and delete requests,
\* get_budget_status(u, m).spent is the sum of the amounts of the expenses of
\* user u now stored with a date in month m, for every user and month, and
\* that is the spent a budget-status request is answered with.
C29_SpentIsLedgerSum ==
    /\ \A u \in DOMAIN users, m \in LedgerMonths :
          get_budget_status(budgets, expenses, u, m).spent = SpentIn(u, m)
    /\ (last # NoCall /\ last.op = "api_get_budget" /\ last.status = 200)
          => last.body.spent = SpentIn(sessions[last.client], last.body.month)

\* alice read the status of February and was answered spent = 2: she holds
\* one expense, added in January with amount 1, then raised to 2 and moved
\* into February; the expense with the lower id has been deleted.
C29_Witness ==
    /\ last.op = "api_get_budget"
    /\ last.client = "ca"
    /\ last.status = 200
    /\ last.body.month = M2402
    /\ last.body.spent = 2
    /\ SpentIn(1, M2401) = 0
    /\ 1 \notin DOMAIN expenses

-----------------------------------------------------------------------------
(* SpecDates: one signed-in user adds expenses with and without a date,     *)
(* sends updates that carry a null, an empty or a valid date, and reads     *)
(* the listing and the monthly totals.                                      *)

DatesAdds == {ExpenseBody(NumV(1), Absent, d, Absent) : d \in {Absent, NoneT, <<>>, D240105}}
DatesUpdates ==
    {ExpenseBody(a, Absent, d, Absent) :
        a \in {AbsentV, NumV(2)}, d \in {NoneT, <<>>, D240120}}

NextDates ==
    \/ \E c \in Clients, data \in DatesAdds :
          /\ NewId(expenses) <= MaxExpenseId
          /\ api_add_expense(c, data)
    \/ \E c \in Clients, i \in 1..MaxExpenseId, data \in DatesUpdates :
          api_update_expense(c, i, data)
    \/ \E c \in Clients, i \in 1..MaxExpenseId : api_delete_expense(c, i)
    \/ \E c \in Clients : api_list_expenses(c, Absent, Absent, Absent)
    \/ \E c \in Clients : api_monthly(c)

SpecDates == InitRegistry /\ [][NextDates]_vars

\* C30: every expense stored through the API has a date; an add with no
\* date, a null date or an empty date stores the current UTC date and an add
\* with a date stores that date; an update of an own expense with a null or
\* empty date is answered 400 and changes nothing; the monthly totals have
\* no group for dateless expenses and the listing is answered 200 with
\* dated expenses only.
C30_StoredExpensesAreDated ==
    /\ [](\A i \in DOMAIN expenses :
             expenses[i].date # NoneT /\ IsIsoDate(expenses[i].date))
    /\ [][\A c \in Clients, data \in DatesAdds :
             api_add_expense(c, data) =>
                /\ last'.status = 201
                /\ expenses'[last'.body.id].date =
                      (IF Truthy(Get(data.date)) THEN data.date ELSE UtcToday)]_vars
    /\ [][\A c \in Clients, i \in DOMAIN expenses, data \in DatesUpdates :
             (api_update_expense(c, i, data) /\ ~Truthy(data.date)) =>
                /\ last'.status = 400
                /\ expenses' = expenses]_vars
    /\ [](last # NoCall /\ last.op = "api_monthly" => <<>> \notin DOMAIN last.body)
    /\ [](last # NoCall /\ last.op = "api_list_expenses" =>
             /\ last.status = 200
             /\ \A k \in 1..Len(last.body) : last.body[k].date # NoneT)

\* An update with a null or empty date has just been refused while the user
\* holds an expense that was added without a date and carries today's date
\* and an expense whose date an earlier update replaced.
C30_Witness ==
    /\ last.op = "api_update_expense"
    /\ last.status = 400
    /\ last.body = Err("invalid date")
    /\ \E i, j \in DOMAIN expenses :
          expenses[i].date = UtcToday /\ expenses[j].date = D240120

====
